---- MODULE Spec2Model ----
(***************************************************************************)
(* Model of the batch evaluation and scoring engine of the Reranker        *)
(* repository (src/utils/batch_evaluator.py and the calls it makes).       *)
(*                                                                         *)
(* The specifications share the variables below; each leaves the          *)
(* variables of the others at rest.                                        *)
(*   Spec       batch_evaluate over a question list, followed by           *)
(*              generate_report on the dataframe it returns.               *)
(*   SpecEval   one call of evaluate_single_question, step by step.        *)
(*   SpecFetch  one call of fetch_both_systems (src/utils/api_caller.py),  *)
(*              SpecFetchFair the same under weak fairness.                *)
(*   SpecProv   a sequence of evaluate_single_question calls on one        *)
(*              BatchEvaluator, each value carrying what it was made from. *)
(*   SpecMetrics  one invocation of generate_answer, of _call_llm, of      *)
(*              one of the five calculations of RAGASMetrics, or of        *)
(*              is_refusal_answer.                                         *)
(*                                                                         *)
(* Conventions.  A metric score is an integer of Scores (a point of the    *)
(* [0,1] scale); a mean is the exact fraction [sum, n] (n = 0 is pandas'   *)
(* NaN, the mean of no rows).  A chunk is represented by its shape, which  *)
(* is all the code inspects.  The dataframe carries one judged score       *)
(* column, faithfulness; the other judged columns are built and aggregated *)
(* by the same statements.                                                 *)
(***************************************************************************)
EXTENDS Integers, Sequences, FiniteSets, TLC

VARIABLES
    questions,      \* batch_evaluate: the input question list
    idx,            \* batch_evaluate: 1-based position of the loop
    all_results,    \* batch_evaluate: records appended so far
    df,             \* the dataframe returned by _create_results_dataframe
    report,         \* generate_report: its result, or its locals where it raised
    pc,             \* position of the batch run
    equestion,      \* evaluate_single_question: question_data
    results,        \* evaluate_single_question: result of fetch_both_systems
    evaluation,     \* evaluate_single_question: the record being built
    esys,           \* evaluate_single_question: position in the loop over systems
    eanswer,        \* evaluate_single_question: answer of the current system
    calls,          \* evaluate_single_question: collaborators invoked, in order
    epc,            \* position inside evaluate_single_question
    fsys,           \* fetch_both_systems: position of the fetch_chunks call
    attempt,        \* _post_with_retries: attempt
    last_err,       \* _post_with_retries: last_err
    events,         \* per system, the POSTs and sleeps of its fetch_chunks call
    resp,           \* fetch_chunks: the response _post_with_retries returned
    responses,      \* fetch_both_systems: original_response, reranked_response
    both,           \* fetch_both_systems: the dict it returns
    fpc,            \* position inside fetch_both_systems
    pquestions,     \* the question dicts handed to one BatchEvaluator, in order
    pidx,           \* 1-based position of the next question to evaluate
    precords,       \* the records evaluate_single_question has returned
    mcall,          \* the function invoked, with its arguments and what the
                    \* services it calls come back with
    mresult,        \* what the invocation returned or that it raised, and the
                    \* requests it sent
    mpc,            \* position of the invocation
    files,          \* questions_dir: the text of each <safe_name>.json
    sop,            \* the last direct call of save_questions or
                    \* load_questions, with what it returned
    sprev,          \* the direct call before it
    test_questions,             \* st.session_state.test_questions
    current_question_idx,       \* st.session_state.current_question_idx
    results_cache,              \* st.session_state.results_cache
    last_generated_questions,   \* st.session_state.last_generated_questions
    show_add_question           \* st.session_state.show_add_question

vars == <<questions, idx, all_results, df, report, pc,
          equestion, results, evaluation, esys, eanswer, calls, epc,
          fsys, attempt, last_err, events, resp, responses, both, fpc,
          pquestions, pidx, precords, mcall, mresult, mpc,
          files, sop, sprev,
          test_questions, current_question_idx, results_cache,
          last_generated_questions, show_add_question>>

batchVars == <<questions, idx, all_results, df, report, pc>>
evalVars == <<equestion, results, evaluation, esys, eanswer, calls, epc>>
fetchVars == <<fsys, attempt, last_err, events, resp, responses, both, fpc>>

(* What a batch step and an evaluation step leave alone. *)
provVars == <<pquestions, pidx, precords>>

metricVars == <<mcall, mresult, mpc>>
storeVars == <<files, sop, sprev>>
sessionVars == <<test_questions, current_question_idx, results_cache,
                 last_generated_questions, show_add_question>>
uiVars == <<storeVars, sessionVars>>

outsideBatch == <<evalVars, fetchVars, provVars, metricVars, uiVars>>
outsideEval == <<batchVars, fetchVars, provVars, metricVars, uiVars>>
outsideFetch == <<batchVars, evalVars, provVars, metricVars, uiVars>>
outsideProv == <<batchVars, evalVars, fetchVars, metricVars, uiVars>>
outsideMetrics == <<batchVars, evalVars, fetchVars, provVars, uiVars>>
outsideStore == <<batchVars, evalVars, fetchVars, provVars, metricVars, sessionVars>>
outsideDashboard == <<batchVars, evalVars, fetchVars, provVars, metricVars>>

----------------------------------------------------------------------------
(* Bounds of the model *)

MaxQuestions == 3
MaxChunks == 2

(* Points of the score scale, elapsed times and answers the collaborators
   can produce. *)
Scores == {0, 1}
Times == {5}
AnswerKinds == {"answer", "refusal"}

(* for system in ['original', 'reranked'] *)
Systems == <<"original", "reranked">>
SystemSet == {"original", "reranked"}

(* Shapes of one entry of a passage list: not a dict, a dict whose content
   is missing or empty, a dict with non-empty content. *)
ChunkKinds == {"nondict", "dict_empty", "dict_content"}

ChunkLists == UNION {[1..n -> ChunkKinds] : n \in 0..MaxChunks}

(* Keys a question dict can carry. *)
WellFormed == {"id", "question", "ground_truth"}
QuestionShapes == {WellFormed, {"id", "question"}, {"question", "ground_truth"}}

----------------------------------------------------------------------------
(* Helpers on sequences *)

RECURSIVE SumTo(_, _)
SumTo(s, n) == IF n = 0 THEN 0 ELSE SumTo(s, n - 1) + s[n]

SumSeq(s) == SumTo(s, Len(s))

RECURSIVE FlattenTo(_, _)
FlattenTo(ss, n) == IF n = 0 THEN <<>> ELSE FlattenTo(ss, n - 1) \o ss[n]

Flatten(ss) == FlattenTo(ss, Len(ss))

BoolInt(b) == IF b THEN 1 ELSE 0

----------------------------------------------------------------------------
(* fetch_both_systems: what it can hand to evaluate_single_question.  A
   failed fetch_chunks carries an error and, having no 'Documents' key, an
   empty chunk list; a successful one carries the normalised list. *)

SystemResult(err, chunks, t) == [error |-> err, chunks |-> chunks, time_ms |-> t]

SystemResults ==
    {SystemResult(TRUE, <<>>, t) : t \in Times}
        \cup {SystemResult(FALSE, c, t) : c \in ChunkLists, t \in Times}

NoResults == [s \in SystemSet |-> SystemResult(FALSE, <<>>, 0)]

----------------------------------------------------------------------------
(* fetch_chunks and the functions it calls (src/utils/api_caller.py) *)

(* fetch_chunks calls _post_with_retries(..., retries=1, backoff=0.5); the
   backoff is kept in milliseconds. *)
Retries == 1
BackoffMs == 500

(* resp.text[:500] *)
PreviewLimit == 500

(* Status codes a backend answers with, and lengths of a response body. *)
StatusCodes == {200, 404, 500}
BodyLengths == {0, 500, 501}

(* A JSON value as _normalize_documents looks at it: a list (of passages),
   a dict, anything else ("scalar"), or no value under the key. *)
JAbsent == [kind |-> "absent", items |-> <<>>, entries |-> <<>>]
JScalar == [kind |-> "scalar", items |-> <<>>, entries |-> <<>>]
JList(items) == [kind |-> "list", items |-> items, entries |-> <<>>]
JDict(entries) == [kind |-> "dict", items |-> <<>>, entries |-> entries]

(* for key in ("Documents", "documents", "results", "data") *)
TopKeys == <<"Documents", "documents", "results", "data">>

(* for key in ("Documents", "documents", "results"), under "data" *)
NestedKeys == <<"Documents", "documents", "results">>

KeySet(keys) == {keys[i] : i \in 1..Len(keys)}

(* The one-passage list stored under a path: its passage names the path. *)
DocsAt(path) == JList(<<path>>)

NestedDicts ==
    {JDict([k \in KeySet(NestedKeys) |-> IF k \in present THEN DocsAt("data." \o k) ELSE JAbsent]) :
        present \in SUBSET KeySet(NestedKeys)}

(* The bodies that parse to a JSON object: each top-level key with no
   value, a list or a scalar ("Documents" also with the empty list), and
   "data" also with a nested object. *)
JsonObjects ==
    {JDict([k \in KeySet(TopKeys) |->
               CASE k = "Documents" -> d
                 [] k = "documents" -> l
                 [] k = "results" -> r
                 [] OTHER -> n]) :
        d \in {JAbsent, JScalar, JList(<<>>), DocsAt("Documents")},
        l \in {JAbsent, JScalar, DocsAt("documents")},
        r \in {JAbsent, JScalar, DocsAt("results")},
        n \in {JAbsent, JScalar, DocsAt("data")} \cup NestedDicts}

(* resp.json(): a JSON object, a JSON value that is not an object (an array
   shown here, a string, a number, null), or a body that does not parse. *)
JInvalid == [kind |-> "invalid", items |-> <<>>, entries |-> <<>>]
JsonBodies == JsonObjects \cup {JList(<<>>), JScalar, JInvalid}

HttpResponse(status, length, json) == [status |-> status, length |-> length, json |-> json]

(* What requests.post can return.  A body that parses as JSON is not empty. *)
HttpResponses ==
    {HttpResponse(st, n, JInvalid) : st \in StatusCodes, n \in BodyLengths}
        \cup {HttpResponse(200, 501, j) : j \in JsonBodies \ {JInvalid}}

NoResponse == HttpResponse(0, 0, JInvalid)

(* The first key of keys[i..] under which entries holds a list; 0 if none. *)
RECURSIVE FirstListFrom(_, _, _)
FirstListFrom(entries, keys, i) ==
    IF i > Len(keys) THEN 0
    ELSE IF entries[keys[i]].kind = "list" THEN i
    ELSE FirstListFrom(entries, keys, i + 1)

FirstList(entries, keys) == FirstListFrom(entries, keys, 1)

(* _normalize_documents(resp_json) *)
normalize_documents(resp_json) ==
    IF resp_json.kind # "dict" THEN <<>>
    ELSE IF FirstList(resp_json.entries, TopKeys) # 0
    THEN resp_json.entries[TopKeys[FirstList(resp_json.entries, TopKeys)]].items
    ELSE IF resp_json.entries["data"].kind # "dict" THEN <<>>
    ELSE IF FirstList(resp_json.entries["data"].entries, NestedKeys) # 0
    THEN resp_json.entries["data"].entries[
             NestedKeys[FirstList(resp_json.entries["data"].entries, NestedKeys)]].items
    ELSE <<>>

(* Variant: the whole body as the preview. *)
PreviewUntruncated(length) == [chars |-> length, ellipsis |-> FALSE]

(* text_preview: the first 500 characters of the body, and "..." after them
   where the body is longer. *)
Preview(length) ==
    [chars |-> IF length > PreviewLimit THEN PreviewLimit ELSE length,
     ellipsis |-> length > PreviewLimit]

NoPreview == [chars |-> 0, ellipsis |-> FALSE]

(* The value under 'error' of the dict fetch_chunks returns. *)
NoError == [kind |-> "none", status |-> 0, preview |-> NoPreview]
TransportError == [kind |-> "Request failed", status |-> 0, preview |-> NoPreview]
StatusErrorOf(status, preview) == [kind |-> "Status", status |-> status, preview |-> preview]
JsonError == [kind |-> "Invalid JSON", status |-> 0, preview |-> NoPreview]

(* The dict fetch_chunks returns: 'error', and 'Documents' where the key is
   there; "raised" where an exception leaves fetch_chunks instead. *)
Response(raised, error, has_documents, documents) ==
    [raised |-> raised, error |-> error,
     has_documents |-> has_documents, Documents |-> documents]

NoResponseDict == Response(FALSE, NoError, FALSE, <<>>)

(* Variant: the error dict of a failed status also carries the documents
   parsed from the body. *)
StatusFailureWithDocuments(r) ==
    Response(FALSE, StatusErrorOf(r.status, Preview(r.length)), TRUE, <<"body">>)

(* Lines 108-109: return {"error": f"Status {status}: {text_preview}"} *)
StatusFailure(r) ==
    Response(FALSE, StatusErrorOf(r.status, Preview(r.length)), FALSE, <<>>)

(* Lines 117-121 for a parsed body.  Where no document was found the
   diagnostic of line 120 reads resp_json.keys(), which raises
   AttributeError for a body that is not a JSON object. *)
ParsedResult(resp_json) ==
    IF normalize_documents(resp_json) = <<>> /\ resp_json.kind # "dict"
    THEN Response(TRUE, NoError, FALSE, <<>>)
    ELSE Response(FALSE, NoError, TRUE, normalize_documents(resp_json))

(* fetch_chunks after _post_with_retries has returned (resp, time_ms, err),
   lines 101-121. *)
FetchChunksResult(err, r) ==
    IF err THEN Response(FALSE, TransportError, FALSE, <<>>)
    ELSE IF r.status # 200 THEN StatusFailure(r)
    ELSE IF r.json = JInvalid THEN Response(FALSE, JsonError, FALSE, <<>>)
    ELSE ParsedResult(r.json)

(* fetch_both_systems, lines 162-184: the 'chunks' and the 'error' of one
   system's entry in the dict it returns, from the dict fetch_chunks
   returned ('time_ms' is passed through unchanged). *)
ChunksOf(response) == IF response.has_documents THEN response.Documents ELSE <<>>

SystemEntry(response) == [chunks |-> ChunksOf(response), error |-> response.error]

(* Events of one fetch_chunks call. *)
PostEvent(ok) == [op |-> "post", ok |-> ok, ms |-> 0]
SleepEvent(ms) == [op |-> "sleep", ok |-> FALSE, ms |-> ms]

(* Variant: no 'break' after the last attempt. *)
LastAttemptNever(n, retries) == FALSE

(* if attempt == retries: break *)
LastAttempt(n, retries) == n = retries

(* time.sleep(backoff * (2 ** attempt)) *)
BackoffDelay(backoff, n) == backoff * (2 ^ n)

NoEvents == [s \in SystemSet |-> <<>>]
NoResponses == [s \in SystemSet |-> NoResponseDict]
NoBoth == [s \in SystemSet |-> SystemEntry(NoResponseDict)]

IdleFetch ==
    /\ fsys = 1
    /\ attempt = 0
    /\ last_err = FALSE
    /\ events = NoEvents
    /\ resp = NoResponse
    /\ responses = NoResponses
    /\ both = NoBoth
    /\ fpc = "idle"

IdleProv ==
    /\ pquestions = <<>>
    /\ pidx = 1
    /\ precords = <<>>

NoCall == [op |-> "none"]
NoResult == [raised |-> FALSE, requests |-> 0]

IdleMetrics ==
    /\ mcall = NoCall
    /\ mresult = NoResult
    /\ mpc = "idle"

NoFiles == <<>>
NoStoreCall == [op |-> "none", name |-> <<>>, questions |-> <<>>]

IdleStore ==
    /\ files = NoFiles
    /\ sop = NoStoreCall
    /\ sprev = NoStoreCall

IdleSession ==
    /\ test_questions = <<>>
    /\ current_question_idx = 0
    /\ results_cache = <<>>
    /\ last_generated_questions = <<>>
    /\ show_add_question = FALSE

----------------------------------------------------------------------------
(* evaluate_single_question, one system *)

(* contexts = [chunk.get('content', '') for chunk in chunks if isinstance(chunk, dict)] *)
Content(chunk) == IF chunk = "dict_content" THEN "text" ELSE ""

Contexts(chunks) ==
    LET dicts == SelectSeq(chunks, LAMBDA c : c # "nondict")
    IN  [i \in 1..Len(dicts) |-> Content(dicts[i])]

SkipsSystemOnErrorOnly(res) == res.error
(* The three early 'continue's of the loop body. *)
SkipsSystem(res) ==
    \/ res.error
    \/ res.chunks = <<>>
    \/ Contexts(res.chunks) = <<>>

(* generate_answer formats every chunk with chunk.get(...) before it sends
   anything: an entry that is not a dict raises AttributeError. *)
GenerateAnswerRaises(chunks) == \E i \in 1..Len(chunks) : chunks[i] = "nondict"

(* is_refusal_answer: the answer contains one of the refusal phrases. *)
is_refusal_answer(answer) == answer = "refusal"

NoMetrics ==
    [present |-> FALSE, faithfulness |-> 0, response_time_ms |-> 0,
     answer |-> "none", refused_to_answer |-> FALSE]

Metrics(res, answer, score) ==
    [present |-> TRUE, faithfulness |-> score, response_time_ms |-> res.time_ms,
     answer |-> answer, refused_to_answer |-> is_refusal_answer(answer)]

(* One iteration of the loop over systems: the metrics stored under
   '<system>_metrics', or NoMetrics where the key is left out. *)
ProcessSystem(res, answer, score) ==
    IF SkipsSystem(res) THEN NoMetrics
    ELSE IF GenerateAnswerRaises(res.chunks) THEN NoMetrics
    ELSE Metrics(res, answer, score)

MetricsKey(system) == IF system = "original" THEN "original_metrics" ELSE "reranked_metrics"

Evaluation(qid, mo, mr) ==
    [question_id |-> qid, original_metrics |-> mo, reranked_metrics |-> mr]

NoEvaluation == Evaluation(0, NoMetrics, NoMetrics)

(* Everything one system can contribute to a record. *)
SystemOutcomes ==
    {ProcessSystem(r, a, s) : r \in SystemResults, a \in AnswerKinds, s \in Scores}

----------------------------------------------------------------------------
(* _create_results_dataframe *)

Row(result, system) ==
    LET metrics == result[MetricsKey(system)]
    IN  [question_id |-> result.question_id,
         system |-> system,
         faithfulness |-> metrics.faithfulness,
         response_time_ms |-> metrics.response_time_ms,
         refused_to_answer |-> metrics.refused_to_answer]

(* Variant: a row for each system whether or not its metrics are there, a
   missing system's scores read as 0. *)
RowsOfZeroFilled(result) == <<Row(result, "original"), Row(result, "reranked")>>

(* The rows one record contributes: one per system whose metrics key is in
   the record, in the order of the loop over systems. *)
RowsOf(result) ==
    Flatten([k \in 1..Len(Systems) |->
                IF result[MetricsKey(Systems[k])].present
                THEN <<Row(result, Systems[k])>>
                ELSE <<>>])

(* pd.DataFrame(metrics_data), or the empty pd.DataFrame() (no rows and no
   columns) when no row was collected: both are the sequence of rows. *)
create_results_dataframe(rs) == Flatten([k \in 1..Len(rs) |-> RowsOf(rs[k])])

----------------------------------------------------------------------------
(* generate_report *)

(* Columns kept by mean(numeric_only=True): the float, int and bool columns;
   question_id and system are strings. *)
NumericColumns == {"faithfulness", "response_time_ms", "refused_to_answer"}

(* for metric in ['faithfulness', 'answer_relevancy', 'context_precision', 'context_recall'] *)
SignificanceMetrics == {"faithfulness"}

Cell(row, column) ==
    IF column = "refused_to_answer" THEN BoolInt(row[column]) ELSE row[column]

(* df[df['system'] == system] *)
SystemRows(d, system) == SelectSeq(d, LAMBDA r : r.system = system)

(* df[...][metric].values *)
ColumnValues(rows, column) == [i \in 1..Len(rows) |-> Cell(rows[i], column)]

(* Series.mean(): the mean of the rows there are; NaN (n = 0) of none. *)
Mean(values) == [sum |-> SumSeq(values), n |-> Len(values)]

ColumnMeans(rows) == [c \in NumericColumns |-> Mean(ColumnValues(rows, c))]

IsNaN(m) == m.n = 0

(* original_val == 0: false of NaN *)
EqZero(m) == m.n > 0 /\ m.sum = 0

Num(a, b) == [kind |-> "num", num |-> a, den |-> b]
Inf == [kind |-> "inf", num |-> 0, den |-> 1]
NaN == [kind |-> "nan", num |-> 0, den |-> 1]

(* Variant: an original mean of 0 always reported as no improvement. *)
ImprovementZeroWhenOriginalZero(o, r) ==
    IF EqZero(o) THEN Num(0, 1)
    ELSE IF IsNaN(o) \/ IsNaN(r) THEN NaN
         ELSE Num((r.sum * o.n - o.sum * r.n) * 100, r.n * o.sum)

(* The improvement of one metric, lines 322-331.  The quotient
   (r - o) / o * 100 of the fractions o and r is
   (r.sum * o.n - o.sum * r.n) * 100 / (r.n * o.sum). *)
Improvement(o, r) ==
    IF EqZero(o)
    THEN IF EqZero(r) THEN Num(0, 1) ELSE Inf
    ELSE IF IsNaN(o) \/ IsNaN(r) THEN NaN
         ELSE Num((r.sum * o.n - o.sum * r.n) * 100, r.n * o.sum)

(* Squared two-sided 5% critical value of Student's t, times 1000. *)
CritSq1000(dof) ==
    CASE dof = 1 -> 161448
      [] dof = 2 -> 18513
      [] dof = 3 -> 10128
      [] dof = 4 -> 7709
      [] dof = 5 -> 6608
      [] OTHER -> 5987

PValue(nan, below) == [nan |-> nan, below_alpha |-> below]

(* The p-value of the paired test from n = len(d), S = sum d and
   V = n * sum d*d - S*S, where t*t = S*S*(n-1) / V: NaN for n < 2 and for
   d = 0 everywhere (0/0), p = 0 for a constant d # 0 (t infinite). *)
PValueOf(n, S, V) ==
    IF n < 2 THEN PValue(TRUE, FALSE)
    ELSE IF V = 0 THEN (IF S = 0 THEN PValue(TRUE, FALSE) ELSE PValue(FALSE, TRUE))
    ELSE PValue(FALSE, S * S * (n - 1) * 1000 > CritSq1000(n - 1) * V)

(* a - b, an array of length 1 being stretched to the other's length *)
Differences(a, b) ==
    IF Len(a) = Len(b) THEN [i \in 1..Len(a) |-> a[i] - b[i]]
    ELSE IF Len(a) = 1 THEN [i \in 1..Len(b) |-> a[1] - b[i]]
    ELSE [i \in 1..Len(a) |-> a[i] - b[1]]

SumSquares(d) == SumSeq([i \in 1..Len(d) |-> d[i] * d[i]])

TTestOf(d) ==
    [raised |-> FALSE,
     p_value |-> PValueOf(Len(d), SumSeq(d),
                          Len(d) * SumSquares(d) - SumSeq(d) * SumSeq(d))]

(* scipy.stats.ttest_rel(a, b) on two 1-d arrays.  Arrays of different
   lengths raise ValueError, except that a build of scipy that broadcasts
   paired samples stretches an array of length 1 to the other's length. *)
TTestRel(a, b, broadcasts) ==
    IF Len(a) # Len(b) /\ ~(broadcasts /\ (Len(a) = 1 \/ Len(b) = 1))
    THEN [raised |-> TRUE, p_value |-> PValue(TRUE, FALSE)]
    ELSE TTestOf(Differences(a, b))

(* Variant: 'significant' as not (p_value >= 0.05), which is true of NaN. *)
SignificantUnlessAbove(p_value) == p_value.nan \/ p_value.below_alpha

(* 'significant': p_value < 0.05, which is false of NaN *)
Significant(p_value) == ~p_value.nan /\ p_value.below_alpha

(* The question ids behind the i-th reranked and the i-th original value of
   the paired test (a single row being stretched as in Differences). *)
PairedIds(rer, orig) ==
    LET n == IF Len(rer) = 1 THEN Len(orig) ELSE Len(rer)
    IN  [i \in 1..n |->
            [reranked |-> rer[IF Len(rer) = 1 THEN 1 ELSE i].question_id,
             original |-> orig[IF Len(orig) = 1 THEN 1 ELSE i].question_id]]

Misses(d, system) ==
    Len(SelectSeq(d, LAMBDA r : r.system = system /\ r.refused_to_answer))

(* (misses / total_questions * 100) if total_questions > 0 else 0 *)
MissRate(misses, total) == IF total > 0 THEN Num(misses * 100, total) ELSE Num(0, 1)

EmptyTable == [c \in {} |-> 0]

NoMissStatistics ==
    [original_misses |-> 0, original_miss_rate |-> Num(0, 1),
     reranked_misses |-> 0, reranked_miss_rate |-> Num(0, 1),
     miss_reduction |-> 0]

NoReport ==
    [raised |-> "none", original_metrics |-> EmptyTable,
     reranked_metrics |-> EmptyTable, improvements |-> EmptyTable,
     statistical_significance |-> EmptyTable, paired_ids |-> EmptyTable,
     total_questions |-> 0, has_miss_statistics |-> FALSE,
     miss_statistics |-> NoMissStatistics]

(* Lines 333-362, given the locals of lines 315-331. *)
ReportTail(d, orig, rer, computed, tests) ==
    IF \E m \in SignificanceMetrics : tests[m].raised
    THEN [computed EXCEPT !.raised = "ValueError"]
    ELSE [computed EXCEPT
             !.statistical_significance =
                 [m \in SignificanceMetrics |->
                     [p_value |-> tests[m].p_value,
                      significant |-> Significant(tests[m].p_value)]],
             !.paired_ids = PairedIds(rer, orig),
             !.total_questions = Len(d) \div 2,
             !.has_miss_statistics = TRUE,
             !.miss_statistics =
                 [original_misses |-> Misses(d, "original"),
                  original_miss_rate |-> MissRate(Misses(d, "original"), Len(d) \div 2),
                  reranked_misses |-> Misses(d, "reranked"),
                  reranked_miss_rate |-> MissRate(Misses(d, "reranked"), Len(d) \div 2),
                  miss_reduction |-> Misses(d, "original") - Misses(d, "reranked")]]

(* Lines 315-331: the means of each system and the improvements. *)
ReportHead(orig, rer, original_metrics, reranked_metrics) ==
    [NoReport EXCEPT
        !.original_metrics = original_metrics,
        !.reranked_metrics = reranked_metrics,
        !.improvements =
            [m \in NumericColumns \ {"response_time_ms"} |->
                Improvement(original_metrics[m], reranked_metrics[m])]]

ReportOf(d, orig, rer, broadcasts) ==
    ReportTail(d, orig, rer,
               ReportHead(orig, rer, ColumnMeans(orig), ColumnMeans(rer)),
               [m \in SignificanceMetrics |->
                   TTestRel(ColumnValues(rer, m), ColumnValues(orig, m), broadcasts)])

(* generate_report(df).  'raised' names the exception that leaves the
   function, "none" when it returns; where it raises, the fields hold the
   locals computed up to that point.  df['system'] on the empty
   pd.DataFrame(), which has no columns, raises KeyError. *)
generate_report(d, broadcasts) ==
    IF d = <<>>
    THEN [NoReport EXCEPT !.raised = "KeyError"]
    ELSE ReportOf(d, SystemRows(d, "original"), SystemRows(d, "reranked"), broadcasts)

----------------------------------------------------------------------------
(* batch_evaluate followed by generate_report *)

(* evaluate_single_question reads question_data['question'],
   ['ground_truth'] and ['id']: a missing key raises KeyError. *)
EvaluationRaises(question_data) == ~(WellFormed \subseteq question_data)

(* all_results.append(result) *)
AppendResult(rs, result) == Append(rs, result)

IdleEval ==
    /\ equestion = WellFormed
    /\ results = NoResults
    /\ evaluation = NoEvaluation
    /\ esys = 1
    /\ eanswer = "none"
    /\ calls = <<>>
    /\ epc = "idle"

Init ==
    /\ questions \in UNION {[1..n -> QuestionShapes] : n \in 0..MaxQuestions}
    /\ idx = 1
    /\ all_results = <<>>
    /\ df = <<>>
    /\ report = NoReport
    /\ pc = "loop"
    /\ IdleEval
    /\ IdleFetch
    /\ IdleProv
    /\ IdleMetrics
    /\ IdleStore
    /\ IdleSession

(* Line 263 prints question_data['id'] before the try block is entered: for
   a question without that key the KeyError leaves batch_evaluate. *)
BatchLogRaises ==
    /\ pc = "loop"
    /\ idx <= Len(questions)
    /\ "id" \notin questions[idx]
    /\ pc' = "raised"
    /\ UNCHANGED <<questions, idx, all_results, df, report>>
    /\ UNCHANGED outsideBatch

(* evaluate_single_question raises inside the try block: the handler logs
   the question's id and the loop goes on to the next question. *)
BatchQuestionSkipped ==
    /\ pc = "loop"
    /\ idx <= Len(questions)
    /\ "id" \in questions[idx]
    /\ EvaluationRaises(questions[idx])
    /\ idx' = idx + 1
    /\ UNCHANGED <<questions, all_results, df, report, pc>>
    /\ UNCHANGED outsideBatch

(* evaluate_single_question returns a record, which is appended.  The
   question at position idx has the id idx. *)
BatchQuestionEvaluated ==
    /\ pc = "loop"
    /\ idx <= Len(questions)
    /\ "id" \in questions[idx]
    /\ ~EvaluationRaises(questions[idx])
    /\ \E mo \in SystemOutcomes, mr \in SystemOutcomes :
          all_results' = AppendResult(all_results, Evaluation(idx, mo, mr))
    /\ idx' = idx + 1
    /\ UNCHANGED <<questions, df, report, pc>>
    /\ UNCHANGED outsideBatch

(* The builds of scipy whose outcomes differ on this dataframe: they differ
   only where the two systems have different numbers of rows and one of
   them has exactly one. *)
ScipyBuilds(d) ==
    IF /\ Len(SystemRows(d, "original")) # Len(SystemRows(d, "reranked"))
       /\ 1 \in {Len(SystemRows(d, "original")), Len(SystemRows(d, "reranked"))}
    THEN BOOLEAN
    ELSE {FALSE}

ReportsOf(d) == {generate_report(d, broadcasts) : broadcasts \in ScipyBuilds(d)}

(* After the loop batch_evaluate builds and returns the dataframe, and its
   caller hands it to generate_report in the next statement. *)
BatchFinish ==
    /\ pc = "loop"
    /\ idx > Len(questions)
    /\ df' = create_results_dataframe(all_results)
    /\ report' \in ReportsOf(df')
    /\ pc' = "reported"
    /\ UNCHANGED <<questions, idx, all_results>>
    /\ UNCHANGED outsideBatch

Next ==
    \/ BatchLogRaises
    \/ BatchQuestionSkipped
    \/ BatchQuestionEvaluated
    \/ BatchFinish

Spec == Init /\ [][Next]_vars

----------------------------------------------------------------------------
(* evaluate_single_question, step by step *)

IdleBatch ==
    /\ questions = <<>>
    /\ idx = 1
    /\ all_results = <<>>
    /\ df = <<>>
    /\ report = NoReport
    /\ pc = "idle"

InitEval ==
    /\ equestion \in QuestionShapes
    /\ results = NoResults
    /\ evaluation = NoEvaluation
    /\ esys = 1
    /\ eanswer = "none"
    /\ calls = <<>>
    /\ epc = "start"
    /\ IdleBatch
    /\ IdleFetch
    /\ IdleProv
    /\ IdleMetrics
    /\ IdleStore
    /\ IdleSession

Call(op, system) == [op |-> op, system |-> system]

CurrentSystem == Systems[esys]

(* 'continue', or the end of the loop over systems and the return *)
NextSystem ==
    IF esys < Len(Systems)
    THEN esys' = esys + 1 /\ epc' = "loop"
    ELSE esys' = esys /\ epc' = "done"

(* Lines 61-62: question_data['question'] or ['ground_truth'] is missing. *)
EvalKeyError ==
    /\ epc = "start"
    /\ ~({"question", "ground_truth"} \subseteq equestion)
    /\ epc' = "raised"
    /\ UNCHANGED <<equestion, results, evaluation, esys, eanswer, calls>>
    /\ UNCHANGED outsideEval

(* Lines 65-76: fetch_both_systems queries the original system, then the
   reranked one; the record is then started from question_data['id']. *)
EvalFetch ==
    /\ epc = "start"
    /\ {"question", "ground_truth"} \subseteq equestion
    /\ \E ro \in SystemResults, rr \in SystemResults :
          results' = [original |-> ro, reranked |-> rr]
    /\ calls' = <<Call("fetch_chunks", "original"), Call("fetch_chunks", "reranked")>>
    /\ IF "id" \in equestion
       THEN evaluation' = Evaluation(1, NoMetrics, NoMetrics) /\ epc' = "loop"
       ELSE evaluation' = evaluation /\ epc' = "raised"
    /\ UNCHANGED <<equestion, esys, eanswer>>
    /\ UNCHANGED outsideEval

(* Lines 82-101: an error, no chunks or no contexts: continue. *)
EvalSkipSystem ==
    /\ epc = "loop"
    /\ SkipsSystem(results[CurrentSystem])
    /\ NextSystem
    /\ UNCHANGED <<equestion, results, evaluation, eanswer, calls>>
    /\ UNCHANGED outsideEval

(* Line 104: generate_answer(question, chunks).  It formats the chunks and
   then posts one request to the completion service, whose reply (or error
   text) is the answer.  Where the formatting raises, nothing is posted and
   the handler of line 120 continues with the next system. *)
EvalGenerateAnswer ==
    /\ epc = "loop"
    /\ ~SkipsSystem(results[CurrentSystem])
    /\ IF GenerateAnswerRaises(results[CurrentSystem].chunks)
       THEN /\ calls' = Append(calls, Call("generate_answer", CurrentSystem))
            /\ eanswer' = eanswer
            /\ NextSystem
       ELSE /\ calls' = calls \o <<Call("generate_answer", CurrentSystem),
                                   Call("llm_request", CurrentSystem)>>
            /\ \E a \in AnswerKinds : eanswer' = a
            /\ esys' = esys
            /\ epc' = "score"
    /\ UNCHANGED <<equestion, results, evaluation>>
    /\ UNCHANGED outsideEval

(* Lines 107-118: the metrics are computed and stored in the record. *)
EvalScore ==
    /\ epc = "score"
    /\ calls' = Append(calls, Call("metrics", CurrentSystem))
    /\ \E score \in Scores :
          evaluation' = [evaluation EXCEPT ![MetricsKey(CurrentSystem)] =
                            Metrics(results[CurrentSystem], eanswer, score)]
    /\ NextSystem
    /\ UNCHANGED <<equestion, results, eanswer>>
    /\ UNCHANGED outsideEval

NextEval ==
    \/ EvalKeyError
    \/ EvalFetch
    \/ EvalSkipSystem
    \/ EvalGenerateAnswer
    \/ EvalScore

SpecEval == InitEval /\ [][NextEval]_vars

----------------------------------------------------------------------------
(* Properties of batch_evaluate and generate_report (under Spec) *)

RecordIds(rs) == [k \in 1..Len(rs) |-> rs[k].question_id]

(* The positions below i of the questions whose evaluation does not raise,
   in input order. *)
ReturningBelow(i) ==
    SelectSeq([k \in 1..(i - 1) |-> k], LAMBDA k : ~EvaluationRaises(questions[k]))

PresentRecords(rs, system) == SelectSeq(rs, LAMBDA r : r[MetricsKey(system)].present)

(* The mean of a column taken straight from the records that carry the
   system's metrics. *)
DirectMean(rs, system, column) ==
    [sum |-> SumSeq([k \in 1..Len(PresentRecords(rs, system)) |->
                        Cell(PresentRecords(rs, system)[k][MetricsKey(system)], column)]),
     n |-> Len(PresentRecords(rs, system))]

RowCount(system) == Len(SystemRows(df, system))

(* C2: batch_evaluate returns exactly one record for every question whose
   evaluation does not raise, in input order; a question whose evaluation
   raises is skipped and never keeps a later question from being evaluated:
   the run does not raise, and ends with the records of the returning
   questions of the whole list. *)
C2_OneRecordPerReturningQuestion ==
    /\ pc # "raised"
    /\ pc = "reported" =>
           RecordIds(all_results) = ReturningBelow(Len(questions) + 1)

(* C3: each system's mean of each column is the mean over exactly the
   records that carry that system's metrics; a record without them adds no
   row and no zero. *)
C3_MeansOverExistingRows ==
    (pc = "reported" /\ report.raised # "KeyError") =>
        \A c \in NumericColumns :
            /\ report.original_metrics[c] = DirectMean(all_results, "original", c)
            /\ report.reranked_metrics[c] = DirectMean(all_results, "reranked", c)

(* Reranked metrics for 2 of 3 questions, both with score 1: the mean is 2/2. *)
C3_Witness ==
    /\ pc = "reported"
    /\ report.raised = "none"
    /\ Len(all_results) = 3
    /\ Len(PresentRecords(all_results, "reranked")) = 2
    /\ report.reranked_metrics["faithfulness"] = [sum |-> 2, n |-> 2]

(* C4: report generation does not raise when the two systems have different
   numbers of rows (stated for row counts other than 1, where every build of
   scipy agrees). *)
C4_ReportNeverRaisesOnUnequalRows ==
    (/\ pc = "reported"
     /\ RowCount("original") # RowCount("reranked")
     /\ RowCount("original") # 1
     /\ RowCount("reranked") # 1) => report.raised = "none"

(* C5: the i-th original and the i-th reranked value of the paired test
   belong to the same question. *)
C5_PairedValuesSameQuestion ==
    (/\ pc = "reported"
     /\ report.raised = "none"
     /\ RowCount("original") = RowCount("reranked")) =>
        \A i \in DOMAIN report.paired_ids :
            report.paired_ids[i].reranked = report.paired_ids[i].original

(* The records that contributed at least one row. *)
AggregatedRecords ==
    SelectSeq(all_results,
              LAMBDA r : r.original_metrics.present \/ r.reranked_metrics.present)

RefusedRecords(system) ==
    SelectSeq(all_results,
              LAMBDA r : r[MetricsKey(system)].present
                           /\ r[MetricsKey(system)].refused_to_answer)

IsRate(rate, misses, total) ==
    rate.kind = "num" /\ rate.den # 0 /\ rate.num * total = misses * 100 * rate.den

(* C6: total_questions is the number of questions aggregated and each miss
   rate is the system's refused answers over that number, times 100. *)
C6_TotalQuestionsAndMissRates ==
    (/\ pc = "reported"
     /\ report.raised = "none"
     /\ RowCount("original") = RowCount("reranked")) =>
        /\ report.total_questions = Len(AggregatedRecords)
        /\ IsRate(report.miss_statistics.original_miss_rate,
                  Len(RefusedRecords("original")), Len(AggregatedRecords))
        /\ IsRate(report.miss_statistics.reranked_miss_rate,
                  Len(RefusedRecords("reranked")), Len(AggregatedRecords))

(* C7: for every metric but response_time_ms the improvement is
   (reranked - original) / original * 100 where the original mean is not 0
   (NaN where a mean is NaN), 0 where both means are 0, and infinite where
   only the original mean is 0. *)
C7_ImprovementFormula ==
    (pc = "reported" /\ report.raised # "KeyError") =>
        /\ DOMAIN report.improvements = NumericColumns \ {"response_time_ms"}
        /\ \A m \in DOMAIN report.improvements :
              LET o == report.original_metrics[m]
                  r == report.reranked_metrics[m]
                  v == report.improvements[m]
              IN  /\ (o.n > 0 /\ o.sum # 0 /\ r.n > 0) =>
                         /\ v.kind = "num"
                         /\ v.den # 0
                         /\ v.num * (o.sum * r.n) = 100 * (r.sum * o.n - o.sum * r.n) * v.den
                  /\ (o.n = 0 \/ (o.sum # 0 /\ r.n = 0)) => v.kind = "nan"
                  /\ (o.n > 0 /\ o.sum = 0 /\ r.n > 0 /\ r.sum = 0) =>
                         v.kind = "num" /\ v.num = 0
                  /\ (o.n > 0 /\ o.sum = 0 /\ ~(r.n > 0 /\ r.sum = 0)) => v.kind = "inf"

(* A returned report with an infinite improvement (original mean 0, reranked
   mean not 0) for one metric and a finite, non-zero one for another. *)
C7_Witness ==
    /\ pc = "reported"
    /\ report.raised = "none"
    /\ report.improvements["faithfulness"].kind = "inf"
    /\ report.improvements["refused_to_answer"].kind = "num"
    /\ report.improvements["refused_to_answer"].num # 0

(* C8: identical, non-empty score vectors of the two systems for a tested
   metric: generate_report returns and reports the metric as not
   significant. *)
C8_IdenticalVectorsNotSignificant ==
    pc = "reported" =>
        \A m \in SignificanceMetrics :
            (/\ RowCount("original") >= 1
             /\ ColumnValues(SystemRows(df, "original"), m)
                    = ColumnValues(SystemRows(df, "reranked"), m)) =>
                /\ report.raised = "none"
                /\ ~report.statistical_significance[m].significant

(* Three questions scored 1, 0, 1 by both systems. *)
C8_Witness ==
    /\ pc = "reported"
    /\ report.raised = "none"
    /\ ColumnValues(SystemRows(df, "original"), "faithfulness") = <<1, 0, 1>>
    /\ ColumnValues(SystemRows(df, "reranked"), "faithfulness") = <<1, 0, 1>>
    /\ ~report.statistical_significance["faithfulness"].significant

(* C9: with records of which none has metrics for either system, the report
   is produced, with total_questions = 0 and empty metric tables. *)
C9_EmptyResultSetReported ==
    (pc = "reported" /\ all_results # <<>> /\ AggregatedRecords = <<>>) =>
        /\ report.raised = "none"
        /\ report.total_questions = 0
        /\ report.original_metrics = EmptyTable
        /\ report.reranked_metrics = EmptyTable

----------------------------------------------------------------------------
(* Properties of evaluate_single_question (under SpecEval) *)

OtherSystem(system) == IF system = "original" THEN "reranked" ELSE "original"

HasDictChunk(chunks) == \E i \in 1..Len(chunks) : chunks[i] # "nondict"

HasUsableChunk(chunks) == \E i \in 1..Len(chunks) : chunks[i] = "dict_content"

Called(op, system) == \E i \in 1..Len(calls) : calls[i] = Call(op, system)

(* The step-by-step run stores what ProcessSystem computes in one piece. *)
StepsAgreeWithProcessSystem ==
    epc = "done" =>
        \A s \in SystemSet :
            \E a \in AnswerKinds, score \in Scores :
                evaluation[MetricsKey(s)] = ProcessSystem(results[s], a, score)

(* C1: one system's retrieval errors and the other returns at least one
   dict-shaped passage: the record has no metrics for the former and has
   the metrics of the latter. *)
C1_ErrorOmittedOtherScored ==
    epc = "done" =>
        \A s \in SystemSet :
            (/\ results[s].error
             /\ ~results[OtherSystem(s)].error
             /\ HasDictChunk(results[OtherSystem(s)].chunks)) =>
                /\ ~evaluation[MetricsKey(s)].present
                /\ evaluation[MetricsKey(OtherSystem(s))].present

(* C10: retrieval without error and without any dict-shaped entry of
   non-empty content: the system's metrics are left out of the record and
   no answer is generated for it (no request to the completion service). *)
C10_NoUsablePassageOmitted ==
    epc = "done" =>
        \A s \in SystemSet :
            (~results[s].error /\ ~HasUsableChunk(results[s].chunks)) =>
                /\ ~evaluation[MetricsKey(s)].present
                /\ ~Called("llm_request", s)

----------------------------------------------------------------------------
(* fetch_both_systems, step by step: fetch_chunks for the original system,
   then for the reranked one *)

InitFetch ==
    /\ fsys = 1
    /\ attempt = 0
    /\ last_err = FALSE
    /\ events = NoEvents
    /\ resp = NoResponse
    /\ responses = NoResponses
    /\ both = NoBoth
    /\ fpc = "post"
    /\ IdleBatch
    /\ IdleEval
    /\ IdleProv
    /\ IdleMetrics
    /\ IdleStore
    /\ IdleSession

FetchSystem == Systems[fsys]

(* Lines 37-47: requests.post raises; the error is kept, and after the last
   attempt the loop is left. *)
FetchPostFails ==
    /\ fpc = "post"
    /\ events' = [events EXCEPT ![FetchSystem] = Append(@, PostEvent(FALSE))]
    /\ last_err' = TRUE
    /\ fpc' = IF LastAttempt(attempt, Retries) THEN "failed" ELSE "sleep"
    /\ UNCHANGED <<fsys, attempt, resp, responses, both>>
    /\ UNCHANGED outsideFetch

(* Lines 48-49: time.sleep(backoff * (2 ** attempt)); attempt += 1, and the
   test of the while loop. *)
FetchSleep ==
    /\ fpc = "sleep"
    /\ events' = [events EXCEPT ![FetchSystem] =
                     Append(@, SleepEvent(BackoffDelay(BackoffMs, attempt)))]
    /\ attempt' = attempt + 1
    /\ fpc' = IF attempt + 1 <= Retries THEN "post" ELSE "failed"
    /\ UNCHANGED <<fsys, last_err, resp, responses, both>>
    /\ UNCHANGED outsideFetch

(* Lines 39-42: requests.post returns a response, which is returned. *)
FetchPostResponds ==
    /\ fpc = "post"
    /\ \E r \in HttpResponses : resp' = r
    /\ events' = [events EXCEPT ![FetchSystem] = Append(@, PostEvent(TRUE))]
    /\ fpc' = "answered"
    /\ UNCHANGED <<fsys, attempt, last_err, responses, both>>
    /\ UNCHANGED outsideFetch

(* fetch_chunks, lines 101-121, on what _post_with_retries returned: err is
   set exactly where the loop was left without a response. *)
FetchChunksReturns ==
    /\ fpc \in {"failed", "answered"}
    /\ responses' = [responses EXCEPT ![FetchSystem] =
                        FetchChunksResult(fpc = "failed", resp)]
    /\ fpc' = IF responses'[FetchSystem].raised THEN "raised" ELSE "returned"
    /\ UNCHANGED <<fsys, attempt, last_err, events, resp, both>>
    /\ UNCHANGED outsideFetch

(* Lines 141-147: the call of fetch_chunks for the reranked system. *)
FetchNextSystem ==
    /\ fpc = "returned"
    /\ fsys < Len(Systems)
    /\ fsys' = fsys + 1
    /\ attempt' = 0
    /\ last_err' = FALSE
    /\ resp' = NoResponse
    /\ fpc' = "post"
    /\ UNCHANGED <<events, responses, both>>
    /\ UNCHANGED outsideFetch

(* Lines 158-184: the chunks and the error of each response. *)
FetchBothReturns ==
    /\ fpc = "returned"
    /\ fsys = Len(Systems)
    /\ both' = [s \in SystemSet |-> SystemEntry(responses[s])]
    /\ fpc' = "done"
    /\ UNCHANGED <<fsys, attempt, last_err, events, resp, responses>>
    /\ UNCHANGED outsideFetch

NextFetch ==
    \/ FetchPostFails
    \/ FetchSleep
    \/ FetchPostResponds
    \/ FetchChunksReturns
    \/ FetchNextSystem
    \/ FetchBothReturns

SpecFetch == InitFetch /\ [][NextFetch]_vars

(* The calls run to completion: requests.post returns or raises within its
   timeout and time.sleep returns. *)
SpecFetchFair == SpecFetch /\ WF_vars(NextFetch)


----------------------------------------------------------------------------
(* Properties of fetch_chunks and fetch_both_systems (under SpecFetch) *)

(* The fetch_chunks call of a system has left _post_with_retries. *)
CallOver(s) ==
    \/ s = "original" /\ fsys = 2
    \/ s = FetchSystem /\ fpc \in {"failed", "answered", "returned", "done", "raised"}

(* fetch_chunks has returned its dict for the system. *)
CallReturned(s) ==
    \/ s = "original" /\ fsys = 2
    \/ s = FetchSystem /\ fpc \in {"returned", "done"}

Posts(e) == SelectSeq(e, LAMBDA x : x.op = "post")
Sleeps(e) == SelectSeq(e, LAMBDA x : x.op = "sleep")

(* The events are POST, sleep, POST, ...: the k-th sleep follows the k-th
   POST, which failed, and lasts backoff * 2^(k-1). *)
AlternatesWithBackoff(e) ==
    \A i \in 1..Len(e) :
        IF i % 2 = 1 THEN e[i].op = "post"
        ELSE /\ e[i].op = "sleep"
             /\ ~e[i - 1].ok
             /\ e[i].ms = BackoffMs * (2 ^ ((i \div 2) - 1))

C12_Safety ==
    \A s \in SystemSet :
        /\ Len(Posts(events[s])) <= Retries + 1
        /\ AlternatesWithBackoff(events[s])
        /\ \A i \in 1..Len(events[s]) :
              events[s][i] = PostEvent(TRUE) => i = Len(events[s])
        /\ CallOver(s) =>
              /\ events[s] # <<>>
              /\ events[s][Len(events[s])].op = "post"
        /\ (CallReturned(s) /\ responses[s].error = TransportError) =>
              /\ Len(Posts(events[s])) = Retries + 1
              /\ \A i \in 1..Len(events[s]) : ~events[s][i].ok
        /\ (CallReturned(s) /\ events[s][Len(events[s])] = PostEvent(TRUE)) =>
              responses[s].error # TransportError

(* C12: a fetch_chunks call makes at most retries + 1 = 2 POSTs, sleeps
   backoff * 2^n after the n-th failure when another attempt follows and
   never after the last attempt, makes no POST after one was answered and
   returns what that one obtained, reports a transport error only after
   every attempt has failed, and the call of fetch_both_systems always
   ends. *)
C12_BoundedRetriesThenTerminates ==
    /\ []C12_Safety
    /\ <>(fpc \in {"done", "raised"})

(* Both attempts of the original system's call failed, with one sleep of
   500 ms between them, and the call returned the transport error. *)
C12_Witness ==
    /\ CallReturned("original")
    /\ events["original"] = <<PostEvent(FALSE), SleepEvent(500), PostEvent(FALSE)>>
    /\ responses["original"].error = TransportError

(* The current call was answered with a status other than 200 and has
   returned. *)
AnsweredNot200 == fpc = "returned" /\ resp # NoResponse /\ resp.status # 200

CarriesStatusAndPreview(error, r) ==
    /\ error.kind = "Status"
    /\ error.status = r.status
    /\ error.preview.chars <= PreviewLimit
    /\ error.preview.chars <= r.length
    /\ error.preview.chars = r.length \/ error.preview.chars = PreviewLimit

(* C13 as stated: a call answered with a non-200 status has made exactly
   one POST and returns an error with the status code and a preview of at
   most 500 characters of the body. *)
C13_ExactlyOnePostOnFailureStatus ==
    AnsweredNot200 =>
        /\ Len(Posts(events[FetchSystem])) = 1
        /\ CarriesStatusAndPreview(responses[FetchSystem].error, resp)

(* C13 as amended: the POST answered with a non-200 status is the last
   request of the call and the only one that was answered (an attempt that
   failed in transport can precede it), and the call returns an error with
   the status code and a preview of at most 500 characters of the body. *)
C13_NoRequestAfterFailureStatus ==
    /\ AnsweredNot200 =>
          /\ events[FetchSystem][Len(events[FetchSystem])] = PostEvent(TRUE)
          /\ Len(SelectSeq(events[FetchSystem], LAMBDA x : x.ok)) = 1
          /\ CarriesStatusAndPreview(responses[FetchSystem].error, resp)
    /\ \A s \in SystemSet :
          (CallReturned(s) /\ responses[s].error.kind = "Status") =>
              events[s][Len(events[s])] = PostEvent(TRUE)

(* A 404 with a body of 501 characters, answered to the second attempt:
   the preview holds 500 of them. *)
C13_Witness ==
    /\ AnsweredNot200
    /\ events[FetchSystem] = <<PostEvent(FALSE), SleepEvent(500), PostEvent(TRUE)>>
    /\ resp.status = 404
    /\ resp.length = 501
    /\ responses[FetchSystem].error = StatusErrorOf(404, [chars |-> 500, ellipsis |-> TRUE])

(* The accepted places of a passage list, in the order of the lookup. *)
AcceptedPaths ==
    <<"Documents", "documents", "results", "data",
      "data.Documents", "data.documents", "data.results">>

(* The value of a parsed body at an accepted path. *)
ValueAt(json, k) ==
    IF json.kind # "dict" THEN JAbsent
    ELSE IF k <= Len(TopKeys) THEN json.entries[TopKeys[k]]
    ELSE IF json.entries["data"].kind # "dict" THEN JAbsent
    ELSE json.entries["data"].entries[NestedKeys[k - Len(TopKeys)]]

ListPaths(json) == {k \in 1..Len(AcceptedPaths) : ValueAt(json, k).kind = "list"}

Least(S) == CHOOSE k \in S : \A j \in S : k <= j

(* The current call was answered with status 200 and a body that parses. *)
AnsweredParsed ==
    /\ fpc \in {"returned", "raised"}
    /\ resp # NoResponse
    /\ resp.status = 200
    /\ resp.json # JInvalid

(* C14: a 200 response whose body holds a list under none of the accepted
   keys makes fetch_chunks return an empty passage list and no error, never
   a failure; where accepted keys hold lists, the list of the first of them
   in the fixed order is returned. *)
C14_UnexpectedShapeIsEmptyNotFailure ==
    AnsweredParsed =>
        /\ ~responses[FetchSystem].raised
        /\ responses[FetchSystem].error = NoError
        /\ responses[FetchSystem].has_documents
        /\ responses[FetchSystem].Documents =
              IF ListPaths(resp.json) = {} THEN <<>>
              ELSE ValueAt(resp.json, Least(ListPaths(resp.json))).items

ErrorSet(entry) == entry.error # NoError

(* C15 as stated: each entry of the dict fetch_both_systems returns has its
   error set or a non-empty chunk list, and not both. *)
C15_ErrorXorChunks ==
    fpc = "done" =>
        \A s \in SystemSet : ErrorSet(both[s]) # (both[s].chunks # <<>>)

(* C15 as amended: no entry has both its error set and a non-empty chunk
   list: an entry whose error is set has no chunks.  An entry can have
   neither (a 200 response without passages). *)
C15_ErrorExcludesChunks ==
    fpc = "done" =>
        \A s \in SystemSet : ErrorSet(both[s]) => both[s].chunks = <<>>

(* The original system failed with a status error and the reranked one
   returned passages. *)
C15_Witness ==
    /\ fpc = "done"
    /\ both["original"].error.kind = "Status"
    /\ both["original"].chunks = <<>>
    /\ both["reranked"].error = NoError
    /\ both["reranked"].chunks # <<>>


----------------------------------------------------------------------------
(* A sequence of evaluate_single_question calls on one BatchEvaluator.
   Every value carries what it was made from: a passage the query and the
   system it was retrieved for, an answer the question and the passages
   given to generate_answer, a score the arguments of its calculation. *)

QuestionTexts == {"q1", "q2"}
GroundTruths == {"g1", "g2"}

QuestionData(id, question, ground_truth) ==
    [id |-> id, question |-> question, ground_truth |-> ground_truth]

(* What a fetch_chunks call can come back with. *)
FetchOutcomes == {"error", "empty", "passages"}

Passage(query, system) == [query |-> query, system |-> system]

(* api_caller.py, lines 132-147 and 173-184: fetch_chunks(query=query, ...,
   use_reranker=...) for each system, and the entry made of its result. *)
Retrieved(query, system, outcome) ==
    [error |-> outcome = "error",
     chunks |-> IF outcome = "passages" THEN <<Passage(query, system)>> ELSE <<>>]

(* Lines 65-70: fetch_both_systems(query=question, ...) *)
FetchBothFor(question, outcomes) ==
    [s \in SystemSet |-> Retrieved(question, s, outcomes[s])]

(* Line 104: generate_answer(question, chunks) *)
GeneratedAnswer(question, chunks) == [question |-> question, passages |-> chunks]

NoAnswer == GeneratedAnswer("", <<>>)

NoProvMetrics ==
    [present |-> FALSE,
     answer |-> NoAnswer,
     faithfulness |-> [answer |-> NoAnswer, contexts |-> <<>>],
     answer_relevancy |-> [question |-> "", answer |-> NoAnswer],
     context_precision |-> [question |-> "", contexts |-> <<>>],
     context_recall |-> [ground_truth |-> "", contexts |-> <<>>],
     answer_correctness |-> [answer |-> NoAnswer, ground_truth |-> ""]]

(* Variant: context recall and answer correctness scored against the
   question text. *)
ScoredAgainstQuestion(question, ground_truth, answer, contexts) ==
    [present |-> TRUE,
     answer |-> answer,
     faithfulness |-> [answer |-> answer, contexts |-> contexts],
     answer_relevancy |-> [question |-> question, answer |-> answer],
     context_precision |-> [question |-> question, contexts |-> contexts],
     context_recall |-> [ground_truth |-> question, contexts |-> contexts],
     answer_correctness |-> [answer |-> answer, ground_truth |-> question]]

(* Lines 107-116: the arguments of the five calculations. *)
Scored(question, ground_truth, answer, contexts) ==
    [present |-> TRUE,
     answer |-> answer,
     faithfulness |-> [answer |-> answer, contexts |-> contexts],
     answer_relevancy |-> [question |-> question, answer |-> answer],
     context_precision |-> [question |-> question, contexts |-> contexts],
     context_recall |-> [ground_truth |-> ground_truth, contexts |-> contexts],
     answer_correctness |-> [answer |-> answer, ground_truth |-> ground_truth]]

(* Lines 79-118 for one system; the contexts of line 97 are the contents of
   the chunks, which are dicts here. *)
ProvSystemMetrics(question, ground_truth, res) ==
    IF res.error \/ res.chunks = <<>> THEN NoProvMetrics
    ELSE Scored(question, ground_truth, GeneratedAnswer(question, res.chunks), res.chunks)

(* Lines 61-126: the record evaluate_single_question returns. *)
ProvRecord(question_data, outcomes) ==
    [question_id |-> question_data.id,
     question |-> question_data.question,
     ground_truth |-> question_data.ground_truth,
     original_metrics |->
         ProvSystemMetrics(question_data.question, question_data.ground_truth,
                           FetchBothFor(question_data.question, outcomes)["original"]),
     reranked_metrics |->
         ProvSystemMetrics(question_data.question, question_data.ground_truth,
                           FetchBothFor(question_data.question, outcomes)["reranked"])]

QuestionLists(n) ==
    {[k \in 1..n |-> QuestionData(k, f[k][1], f[k][2])] :
        f \in [1..n -> QuestionTexts \X GroundTruths]}

InitProv ==
    /\ pquestions \in UNION {QuestionLists(n) : n \in 1..MaxQuestions}
    /\ pidx = 1
    /\ precords = <<>>
    /\ IdleBatch
    /\ IdleEval
    /\ IdleFetch
    /\ IdleMetrics
    /\ IdleStore
    /\ IdleSession

(* evaluate_single_question returns the record of the next question. *)
ProvEvaluate ==
    /\ pidx <= Len(pquestions)
    /\ \E outcomes \in [SystemSet -> FetchOutcomes] :
          precords' = Append(precords, ProvRecord(pquestions[pidx], outcomes))
    /\ pidx' = pidx + 1
    /\ UNCHANGED pquestions
    /\ UNCHANGED outsideProv

(* fetch_both_systems raises at line 65: the call returns no record. *)
ProvFetchRaises ==
    /\ pidx <= Len(pquestions)
    /\ pidx' = pidx + 1
    /\ UNCHANGED <<pquestions, precords>>
    /\ UNCHANGED outsideProv

NextProv ==
    \/ ProvEvaluate
    \/ ProvFetchRaises

SpecProv == InitProv /\ [][NextProv]_vars

(* Every passage was retrieved for this query and this system. *)
RetrievedFor(passages, query, system) ==
    \A i \in 1..Len(passages) : passages[i] = Passage(query, system)

(* The metrics of a system in a record are made of the record's own
   question text and ground truth only. *)
OwnMetrics(r, system) ==
    LET m == r[MetricsKey(system)]
    IN  m.present =>
            /\ m.answer.passages # <<>>
            /\ RetrievedFor(m.answer.passages, r.question, system)
            /\ m.answer.question = r.question
            /\ m.faithfulness.answer = m.answer
            /\ RetrievedFor(m.faithfulness.contexts, r.question, system)
            /\ m.answer_relevancy = [question |-> r.question, answer |-> m.answer]
            /\ m.context_precision.question = r.question
            /\ RetrievedFor(m.context_precision.contexts, r.question, system)
            /\ m.context_recall.ground_truth = r.ground_truth
            /\ RetrievedFor(m.context_recall.contexts, r.question, system)
            /\ m.answer_correctness = [answer |-> m.answer, ground_truth |-> r.ground_truth]

(* C11: in every record returned, for any sequence of questions, the
   metrics of both systems (when present) are computed from passages
   retrieved with the record's own question text, from answers to that
   question, and scored against the record's own ground truth, which are
   those of the question the record belongs to. *)
C11_MetricsFromOwnQuestion ==
    \A k \in 1..Len(precords) :
        /\ precords[k].question = pquestions[precords[k].question_id].question
        /\ precords[k].ground_truth = pquestions[precords[k].question_id].ground_truth
        /\ \A s \in SystemSet : OwnMetrics(precords[k], s)

(* Two questions with different texts and ground truths, each recorded with
   the metrics of both systems. *)
C11_Witness ==
    /\ Len(precords) = 2
    /\ precords[1].question # precords[2].question
    /\ precords[1].ground_truth # precords[2].ground_truth
    /\ \A k \in 1..2 :
          precords[k].original_metrics.present /\ precords[k].reranked_metrics.present


----------------------------------------------------------------------------
(* Outbound calls of AnswerGenerator and RAGASMetrics *)

MaxLines == 2

(* A text is its sequence of lines; the empty string is one empty line.
   "1. a" is the line that starts with a digit. *)
Lines == {"", "a", "b", "1. a"}
EmptyString == <<"">>
Texts == UNION {[1..n -> Lines] : n \in 1..MaxLines}

(* What the chat-completions endpoint can do with one request: the post
   raises, the status is not 200, the body of a 200 is not the expected
   JSON, the message of a 200 has "content": null, or it has a string. *)
LlmFailures == {"exception", "status", "malformed"}

Reply(kind, text) == [kind |-> kind, text |-> text]

Replies(texts) ==
    {Reply(k, EmptyString) : k \in LlmFailures \cup {"null"}}
        \cup {Reply("content", t) : t \in texts}

Str(text) == [kind |-> "str", text |-> text]
None == [kind |-> "none", text |-> EmptyString]
ErrorString(reply) == [kind |-> "error", text |-> <<reply.kind>>]

(* RAGASMetrics._call_llm: one post; the content of a 200, "" otherwise. *)
call_llm(reply) ==
    IF reply.kind = "content" THEN Str(reply.text)
    ELSE IF reply.kind = "null" THEN None
    ELSE Str(EmptyString)

Returned(requests, value) ==
    [raised |-> FALSE, requests |-> requests, value |-> value]
Raised(requests) ==
    [raised |-> TRUE, requests |-> requests, value |-> None]

(* AnswerGenerator.generate_answer: the chunks are formatted first, then one
   post inside the try. *)
generate_answer(chunks, reply) ==
    IF GenerateAnswerRaises(chunks) THEN Raised(0)
    ELSE IF reply.kind = "content" THEN Returned(1, Str(reply.text))
    ELSE IF reply.kind = "null" THEN Returned(1, None)
    ELSE Returned(1, ErrorString(reply))

InitMetrics ==
    /\ IdleBatch
    /\ IdleEval
    /\ IdleFetch
    /\ IdleProv
    /\ IdleStore
    /\ IdleSession
    /\ mcall = NoCall
    /\ mresult = NoResult
    /\ mpc = "ready"

MetricsGenerateAnswer ==
    /\ mpc = "ready"
    /\ \E chunks \in ChunkLists, reply \in Replies(Texts) :
          /\ mcall' = [op |-> "generate_answer", chunks |-> chunks, reply |-> reply]
          /\ mresult' = generate_answer(chunks, reply)
    /\ mpc' = "returned"
    /\ UNCHANGED outsideMetrics

MetricsCallLlm ==
    /\ mpc = "ready"
    /\ \E reply \in Replies(Texts) :
          /\ mcall' = [op |-> "_call_llm", reply |-> reply]
          /\ mresult' = Returned(1, call_llm(reply))
    /\ mpc' = "returned"
    /\ UNCHANGED outsideMetrics

MetricReturned(op) == mpc = "returned" /\ mcall.op = op

RequestFailed(reply) == reply.kind \in {"exception", "status"}

(* C16: every generate_answer invocation and every _call_llm invocation
   sends exactly one request and does not raise; when the request raises or
   its status is not 200, generate_answer returns an error string and
   _call_llm returns the empty string. *)
C16_OneRequestNoRaise ==
    /\ MetricReturned("generate_answer") =>
          /\ mresult.requests = 1
          /\ ~mresult.raised
          /\ RequestFailed(mcall.reply) => mresult.value.kind = "error"
    /\ MetricReturned("_call_llm") =>
          /\ mresult.requests = 1
          /\ ~mresult.raised
          /\ RequestFailed(mcall.reply) => mresult.value = Str(EmptyString)

----------------------------------------------------------------------------
(* RAGASMetrics.calculate_faithfulness *)

(* Scores are exact fractions with a positive denominator. *)
Frac(num, den) == [num |-> num, den |-> den]
FAdd(a, b) == Frac(a.num * b.den + b.num * a.den, a.den * b.den)
FMul(a, b) == Frac(a.num * b.num, a.den * b.den)
FDiv(a, b) == Frac(a.num * b.den, a.den * b.num)
FLeq(a, b) == a.num * b.den <= b.num * a.den
FEq(a, b) == a.num * b.den = b.num * a.den
FMax(a, b) == IF FLeq(a, b) THEN b ELSE a
FMin(a, b) == IF FLeq(a, b) THEN a ELSE b
Zero == Frac(0, 1)
One == Frac(1, 1)

StartsWithDigit(line) == line = "1. a"
Blank(line) == line = ""

(* if c.strip() and c[0].isdigit() *)
IsClaim(line) == ~Blank(line) /\ StartsWithDigit(line)

Claims(text) == SelectSeq(text, IsClaim)

VerdictReplies == Replies({<<"YES">>, <<"NO">>})

(* 'YES' in verification *)
ContainsYes(value) == \E i \in DOMAIN value.text : value.text[i] = "YES"

(* Position of the first judge reply that _call_llm turns into None, on
   which the caller's .strip() or .split() raises; 0 when there is none. *)
FirstNone(replies) ==
    IF \E i \in DOMAIN replies : call_llm(replies[i]) = None
    THEN CHOOSE i \in DOMAIN replies :
            /\ call_llm(replies[i]) = None
            /\ \A j \in 1..(i - 1) : call_llm(replies[j]) # None
    ELSE 0

Supported(verdicts) ==
    Cardinality({i \in DOMAIN verdicts : ContainsYes(call_llm(verdicts[i]))})

MetricResult(requests, value, extracted) ==
    [raised |-> FALSE, requests |-> requests, value |-> value,
     extracted |-> extracted]
MetricRaised(requests) ==
    [raised |-> TRUE, requests |-> requests, value |-> Zero, extracted |-> <<>>]

NoClaimsScoreZero == Zero
(* return 1.0  # No claims to verify *)
NoClaimsScore == One

(* The number of verification prompts the loop has to send. *)
ClaimsIn(reply) ==
    IF call_llm(reply).kind = "str" THEN Claims(call_llm(reply).text) ELSE <<>>

calculate_faithfulness(claims_reply, verdicts) ==
    IF call_llm(claims_reply) = None THEN MetricRaised(1)
    ELSE IF ClaimsIn(claims_reply) = <<>>
         THEN MetricResult(1, NoClaimsScore, <<>>)
    ELSE IF FirstNone(verdicts) # 0
         THEN MetricRaised(1 + FirstNone(verdicts))
    ELSE MetricResult(1 + Len(verdicts),
                      Frac(Supported(verdicts), Len(ClaimsIn(claims_reply))),
                      ClaimsIn(claims_reply))

MetricsFaithfulness ==
    /\ mpc = "ready"
    /\ \E claims_reply \in Replies(Texts) :
          \E verdicts \in [1..Len(ClaimsIn(claims_reply)) -> VerdictReplies] :
             /\ mcall' = [op |-> "calculate_faithfulness",
                          replies |-> <<claims_reply>> \o verdicts]
             /\ mresult' = calculate_faithfulness(claims_reply, verdicts)
    /\ mpc' = "returned"
    /\ UNCHANGED outsideMetrics

(* The numbered lines of the judge's first reply and the later replies that
   say YES, counted from the replies themselves. *)
NumberedLines(reply) ==
    IF reply.kind = "content"
    THEN Cardinality({i \in DOMAIN reply.text : reply.text[i] = "1. a"})
    ELSE 0

YesReplies(replies) ==
    Cardinality({i \in 2..Len(replies) : replies[i] = Reply("content", <<"YES">>)})

(* C19: when calculate_faithfulness returns, its value is the number of
   claims verified with YES divided by the number of extracted claims, it is
   exactly 1.0 when no claim was extracted, and the verified claims are
   never more than the extracted ones. *)
C19_FaithfulnessIsVerifiedOverClaims ==
    (MetricReturned("calculate_faithfulness") /\ ~mresult.raised) =>
        /\ NumberedLines(mcall.replies[1]) = 0 => mresult.value = One
        /\ NumberedLines(mcall.replies[1]) > 0 =>
              FEq(mresult.value,
                  Frac(YesReplies(mcall.replies), NumberedLines(mcall.replies[1])))
        /\ YesReplies(mcall.replies) <= NumberedLines(mcall.replies[1])

C19_Witness ==
    /\ MetricReturned("calculate_faithfulness")
    /\ ~mresult.raised
    /\ NumberedLines(mcall.replies[1]) = 2
    /\ YesReplies(mcall.replies) = 1
    /\ mresult.value = Frac(1, 2)

----------------------------------------------------------------------------
(* RAGASMetrics.calculate_answer_relevancy *)

Half == Frac(1, 2)

(* Cosine similarities the embedder's vectors can have. *)
Cosines == {Frac(-1, 2), Zero, One}

NonBlank(text) == SelectSeq(text, LAMBDA line : ~Blank(line))

(* [q.strip() for q in generated_questions.split('\n') if q.strip()], and
   the same comprehension in extract_facts. *)
NonBlankIn(reply) ==
    IF call_llm(reply).kind = "str" THEN NonBlank(call_llm(reply).text) ELSE <<>>

RECURSIVE FSum(_)
FSum(fracs) ==
    IF fracs = <<>> THEN Zero ELSE FAdd(Head(fracs), FSum(Tail(fracs)))

(* np.mean *)
MeanSimilarity(fracs) == FDiv(FSum(fracs), Frac(Len(fracs), 1))

calculate_answer_relevancy(reply, similarities) ==
    IF call_llm(reply) = None THEN MetricRaised(1)
    ELSE IF NonBlankIn(reply) = <<>> THEN MetricResult(1, Half, <<>>)
    ELSE MetricResult(1, MeanSimilarity(similarities), NonBlankIn(reply))

MetricsAnswerRelevancy ==
    /\ mpc = "ready"
    /\ \E reply \in Replies(Texts) :
          \E similarities \in [1..Len(NonBlankIn(reply)) -> Cosines] :
             /\ mcall' = [op |-> "calculate_answer_relevancy",
                          replies |-> <<reply>>,
                          similarities |-> similarities]
             /\ mresult' = calculate_answer_relevancy(reply, similarities)
    /\ mpc' = "returned"
    /\ UNCHANGED outsideMetrics

----------------------------------------------------------------------------
(* RAGASMetrics.calculate_context_precision *)

MaxContexts == 6

PrecisionK == 5

Min(a, b) == IF a <= b THEN a ELSE b

JudgedAll(contexts, k) == contexts
(* enumerate(contexts[:k], 1): how many of the contexts are judged *)
Judged(contexts, k) == Min(contexts, k)

RelevantPositions(replies) ==
    {i \in DOMAIN replies : ContainsYes(call_llm(replies[i]))}

RECURSIVE SumReciprocals(_)
SumReciprocals(positions) ==
    IF positions = {} THEN Zero
    ELSE LET pos == CHOOSE p \in positions : TRUE
         IN  FAdd(Frac(1, pos), SumReciprocals(positions \ {pos}))

PrecisionOfJudged(replies, k) ==
    IF FirstNone(replies) # 0 THEN MetricRaised(FirstNone(replies))
    ELSE IF RelevantPositions(replies) = {}
         THEN MetricResult(Len(replies), Zero, <<>>)
    ELSE MetricResult(Len(replies),
                      FMin(FDiv(SumReciprocals(RelevantPositions(replies)),
                                Frac(k, 1)),
                           One),
                      <<>>)

(* judgements[i] is what the judge answers when it is asked about the i-th
   context. *)
calculate_context_precision(judgements, k) ==
    PrecisionOfJudged(SubSeq(judgements, 1, Judged(Len(judgements), k)), k)

(* What the judge would answer about a context after the first five. *)
LaterReplies == {Reply("content", <<"YES">>), Reply("content", <<"NO">>)}

MetricsContextPrecision ==
    /\ mpc = "ready"
    /\ \E contexts \in 0..MaxContexts :
          \E replies \in [1..Min(contexts, PrecisionK) -> VerdictReplies],
             later \in [1..(contexts - Min(contexts, PrecisionK)) -> LaterReplies] :
             /\ mcall' = [op |-> "calculate_context_precision",
                          contexts |-> contexts, replies |-> replies,
                          later |-> later]
             /\ mresult' = calculate_context_precision(replies \o later, PrecisionK)
    /\ mpc' = "returned"
    /\ UNCHANGED outsideMetrics

----------------------------------------------------------------------------
(* RAGASMetrics.calculate_context_recall *)

MaxTruthWords == 6

RecallTerms == 5

(* The ground truth's words, each with whether it occurs in the joined
   contexts. *)
TruthWords == UNION {[1..n -> BOOLEAN] : n \in 0..MaxTruthWords}

FirstTermsAll(words) == words
(* ground_truth_lower.split()[:5] *)
FirstTerms(words) == SubSeq(words, 1, Min(Len(words), RecallTerms))

Found(terms) == Cardinality({i \in DOMAIN terms : terms[i]})

calculate_context_recall(words, contexts) ==
    IF contexts = 0 THEN MetricResult(0, Zero, <<>>)
    ELSE IF Found(FirstTerms(words)) > 0
         THEN MetricResult(0, Frac(Found(FirstTerms(words)), Len(FirstTerms(words))),
                           <<>>)
    ELSE MetricResult(0, Zero, <<>>)

MetricsContextRecall ==
    /\ mpc = "ready"
    /\ \E words \in TruthWords, contexts \in 0..MaxContexts :
          (* no word occurs in an empty list of contexts *)
          /\ contexts = 0 => Found(words) = 0
          /\ mcall' = [op |-> "calculate_context_recall",
                       words |-> words, contexts |-> contexts]
          /\ mresult' = calculate_context_recall(words, contexts)
    /\ mpc' = "returned"
    /\ UNCHANGED outsideMetrics

----------------------------------------------------------------------------
(* RAGASMetrics.calculate_answer_correctness *)

MaxWords == 3

MinTermLength == 3

(* What the judge lists as the facts of a text. *)
FactTexts ==
    {<<"">>, <<"a">>, <<"b">>, <<"a", "b">>, <<"a", "a">>, <<"b", "", "a">>}

(* A word of the ground truth: its length and whether it occurs in the
   answer. *)
WordLengths == {3, 4}
Word(length, found) == [length |-> length, found |-> found]
Words == {Word(l, f) : l \in WordLengths, f \in BOOLEAN}
WordLists == UNION {[1..n -> Words] : n \in 0..MaxWords}

ToSet(seq) == {seq[i] : i \in DOMAIN seq}

(* tp / (tp + fp), tp / (tp + fn) and their harmonic mean *)
F1OfSets(answer_set, truth_set) ==
    LET tp == Cardinality(answer_set \cap truth_set)
        fp == Cardinality(answer_set \ truth_set)
        fn == Cardinality(truth_set \ answer_set)
        precision == IF tp + fp > 0 THEN Frac(tp, tp + fp) ELSE Zero
        recall == IF tp + fn > 0 THEN Frac(tp, tp + fn) ELSE Zero
    IN  IF FAdd(precision, recall).num > 0
        THEN FDiv(FMul(Frac(2, 1), FMul(precision, recall)),
                  FAdd(precision, recall))
        ELSE Zero

F1Score(answer_facts, truth_facts) ==
    IF answer_facts = <<>> /\ truth_facts = <<>> THEN One
    ELSE IF answer_facts = <<>> \/ truth_facts = <<>> THEN Zero
    ELSE F1OfSets(ToSet(answer_facts), ToSet(truth_facts))

(* if len(word) > 3 *)
KeyTerms(words) == SelectSeq(words, LAMBDA w : w.length > MinTermLength)

FoundTerms(terms) == Cardinality({i \in DOMAIN terms : terms[i].found})

Coverage(words) ==
    IF KeyTerms(words) # <<>>
    THEN Frac(FoundTerms(KeyTerms(words)), Len(KeyTerms(words)))
    ELSE Zero

CoverageThreshold == Frac(4, 5)
AdvancedFloor == Frac(4, 5)

Weighted(f1_score, wf, semantic_sim, ws) ==
    FAdd(FMul(f1_score, wf), FMul(semantic_sim, ws))

StandardCorrectness(f1_score, semantic_sim) ==
    Weighted(f1_score, Half, semantic_sim, Half)

AdvancedCorrectness(f1_score, semantic_sim, coverage) ==
    IF FLeq(CoverageThreshold, coverage)
    THEN FMax(AdvancedFloor,
              Weighted(f1_score, Frac(3, 10), semantic_sim, Frac(7, 10)))
    ELSE Weighted(f1_score, Half, semantic_sim, Half)

Correctness(f1_score, semantic_sim, coverage) ==
    [f1_score |-> f1_score,
     semantic_similarity |-> semantic_sim,
     standard_correctness |-> StandardCorrectness(f1_score, semantic_sim),
     advanced_correctness |-> AdvancedCorrectness(f1_score, semantic_sim, coverage),
     all_facts_present |-> FLeq(CoverageThreshold, coverage)]

(* extract_facts(answer) is called first, extract_facts(ground_truth) second *)
calculate_answer_correctness(answer_reply, truth_reply, semantic_sim, words) ==
    IF call_llm(answer_reply) = None THEN MetricRaised(1)
    ELSE IF call_llm(truth_reply) = None THEN MetricRaised(2)
    ELSE MetricResult(2,
                      Correctness(F1Score(NonBlankIn(answer_reply),
                                          NonBlankIn(truth_reply)),
                                  semantic_sim, Coverage(words)),
                      <<NonBlankIn(answer_reply), NonBlankIn(truth_reply)>>)

MetricsAnswerCorrectness ==
    /\ mpc = "ready"
    /\ \E answer_reply \in Replies(FactTexts), truth_reply \in Replies(FactTexts),
          semantic_sim \in Cosines, words \in WordLists :
          /\ mcall' = [op |-> "calculate_answer_correctness",
                       replies |-> <<answer_reply, truth_reply>>,
                       semantic_sim |-> semantic_sim, words |-> words]
          /\ mresult' = calculate_answer_correctness(answer_reply, truth_reply,
                                                     semantic_sim, words)
    /\ mpc' = "returned"
    /\ UNCHANGED outsideMetrics

----------------------------------------------------------------------------
(* BatchEvaluator.is_refusal_answer on the text of an answer *)

MaxAnswerWords == 3

(* A text is a sequence of words, each written in lower or in upper case. *)
Written(word, upper) == [word |-> word, upper |-> upper]

InLowerCase(words) == [i \in DOMAIN words |-> Written(words[i], FALSE)]

english_patterns ==
    <<<<"do", "not", "provide", "information">>,
      <<"do", "not", "contain", "information">>,
      <<"cannot", "answer">>,
      <<"can't", "answer">>,
      <<"unable", "to", "answer">>,
      <<"no", "information", "found">>,
      <<"could", "not", "find">>,
      <<"not", "found", "in", "the", "documents">>,
      <<"documents", "don't", "contain">>,
      <<"if", "you", "could", "provide", "more", "context">>>>

german_patterns ==
    <<<<"keine", "information">>,
      <<"nicht", "gefunden">>,
      <<"kann", "nicht", "beantworten">>,
      <<"keine", "antwort">>,
      <<"nicht", "in", "den", "dokumenten">>,
      <<"dokumente", "enthalten", "nicht">>,
      <<"nicht", "verfuegbar">>,
      <<"keine", "angaben">>,
      <<"wenn", "sie", "mehr", "kontext">>>>

LowerIdentity(text) == text
(* answer.lower() *)
Lower(text) == [i \in DOMAIN text |-> Written(text[i].word, FALSE)]

(* pattern in answer_lower *)
OccursIn(pattern, text) ==
    \E offset \in 0..(Len(text) - Len(pattern)) :
        \A k \in DOMAIN pattern : text[offset + k] = pattern[k]

RefusalDetected(answer) ==
    \E n \in DOMAIN (english_patterns \o german_patterns) :
        OccursIn(InLowerCase((english_patterns \o german_patterns)[n]),
                 Lower(answer))

RefusalSentence ==
    <<"die", "dokumente", "enthalten", "nicht", "die", "gesuchte", "information">>

AnswerWords == {"keine", "information", "nicht", "gefunden", "berlin"}

(* The sentence in every mix of cases, and every short text over a few
   words in either case. *)
AnswerTexts ==
    {[i \in DOMAIN RefusalSentence |-> Written(RefusalSentence[i], i \in upper)] :
        upper \in SUBSET DOMAIN RefusalSentence}
    \cup UNION {[1..n -> {Written(w, u) : w \in AnswerWords, u \in BOOLEAN}] :
                   n \in 0..MaxAnswerWords}

MetricsIsRefusal ==
    /\ mpc = "ready"
    /\ \E answer \in AnswerTexts :
          /\ mcall' = [op |-> "is_refusal_answer", answer |-> answer]
          /\ mresult' = Returned(0, RefusalDetected(answer))
    /\ mpc' = "returned"
    /\ UNCHANGED outsideMetrics

NextMetrics ==
    \/ MetricsIsRefusal
    \/ MetricsGenerateAnswer
    \/ MetricsCallLlm
    \/ MetricsFaithfulness
    \/ MetricsAnswerRelevancy
    \/ MetricsContextPrecision
    \/ MetricsContextRecall
    \/ MetricsAnswerCorrectness

SpecMetrics == InitMetrics /\ [][NextMetrics]_vars

----------------------------------------------------------------------------
(* Properties of the metric computations *)

JudgedOps ==
    {"calculate_faithfulness", "calculate_answer_relevancy",
     "calculate_context_precision", "calculate_answer_correctness"}

(* The judge call did not deliver an answer text: the post raised, the
   status was not 200, or the body did not hold the expected string. *)
JudgeFailed(reply) == reply.kind # "content"

SomeJudgeFailed == \E i \in DOMAIN mcall.replies : JudgeFailed(mcall.replies[i])
AllJudgesFailed == \A i \in DOMAIN mcall.replies : JudgeFailed(mcall.replies[i])

(* C17: a metric computation in which a judge call failed does not raise,
   and it falls back to its default: the list extracted from a failed call
   is empty, answer relevancy is 0.5 and context precision is 0.0. *)
C17_FailedJudgeDegrades ==
    (mpc = "returned" /\ mcall.op \in JudgedOps /\ SomeJudgeFailed) =>
        /\ ~mresult.raised
        /\ (mcall.op = "calculate_faithfulness" /\ JudgeFailed(mcall.replies[1])) =>
              mresult.extracted = <<>>
        /\ (mcall.op = "calculate_answer_relevancy") =>
              mresult.extracted = <<>> /\ mresult.value = Half
        /\ (mcall.op = "calculate_context_precision" /\ AllJudgesFailed) =>
              mresult.value = Zero
        /\ (mcall.op = "calculate_answer_correctness") =>
              \A i \in 1..2 :
                 JudgeFailed(mcall.replies[i]) => mresult.extracted[i] = <<>>

InUnitInterval(score) == FLeq(Zero, score) /\ FLeq(score, One)

ScalarOps ==
    {"calculate_faithfulness", "calculate_answer_relevancy",
     "calculate_context_precision", "calculate_context_recall"}

(* C18: every score a metric computation returns lies in [0.0, 1.0]:
   faithfulness, answer relevancy, context precision, context recall,
   standard_correctness and advanced_correctness. *)
C18_ScoresInUnitInterval ==
    (mpc = "returned" /\ ~mresult.raised) =>
        /\ mcall.op \in ScalarOps => InUnitInterval(mresult.value)
        /\ mcall.op = "calculate_answer_correctness" =>
              /\ InUnitInterval(mresult.value.standard_correctness)
              /\ InUnitInterval(mresult.value.advanced_correctness)

(* The ground truth's words longer than three characters, and those of them
   that occur in the answer. *)
ContentWords == {i \in DOMAIN mcall.words : mcall.words[i].length > 3}
ContentWordsInAnswer == {i \in ContentWords : mcall.words[i].found}

CoverageAtLeastFourFifths ==
    /\ ContentWords # {}
    /\ 5 * Cardinality(ContentWordsInAnswer) >= 4 * Cardinality(ContentWords)

AnswerContainsEveryWord ==
    /\ mcall.words # <<>>
    /\ \A i \in DOMAIN mcall.words : mcall.words[i].found

(* C20: calculate_answer_correctness returns advanced_correctness >= 0.8
   whenever at least 80% of the ground truth's content words occur in the
   answer, and so whenever the answer contains every word of the ground
   truth. *)
C20_AdvancedFloorOnCoverage ==
    (MetricReturned("calculate_answer_correctness") /\ ~mresult.raised) =>
        /\ CoverageAtLeastFourFifths =>
              FLeq(Frac(4, 5), mresult.value.advanced_correctness)
        /\ AnswerContainsEveryWord =>
              FLeq(Frac(4, 5), mresult.value.advanced_correctness)

----------------------------------------------------------------------------
(* Properties of context precision and context recall *)

SaysYes(reply) == reply = Reply("content", <<"YES">>)

(* 60 times the sum of 1/position over the first five positions at which
   the judge said YES. *)
SixtiethsOfYes(replies) ==
    (IF 1 \in DOMAIN replies /\ SaysYes(replies[1]) THEN 60 ELSE 0)
    + (IF 2 \in DOMAIN replies /\ SaysYes(replies[2]) THEN 30 ELSE 0)
    + (IF 3 \in DOMAIN replies /\ SaysYes(replies[3]) THEN 20 ELSE 0)
    + (IF 4 \in DOMAIN replies /\ SaysYes(replies[4]) THEN 15 ELSE 0)
    + (IF 5 \in DOMAIN replies /\ SaysYes(replies[5]) THEN 12 ELSE 0)

(* The replies with the ones at positions i and j exchanged. *)
Exchanged(replies, i, j) ==
    [n \in DOMAIN replies |->
        IF n = i THEN replies[j] ELSE IF n = j THEN replies[i] ELSE replies[n]]

AnsweredNo(reply) == reply.kind # "null" /\ ~SaysYes(reply)

(* C21: calculate_context_precision asks the judge about the first five
   contexts only and returns min(1, (sum of 1/position over the positions
   judged YES) / 5), whatever the judge would say about later contexts; and
   exchanging a YES with a non-YES at an earlier position never lowers the
   score. *)
C21_PrecisionOverFirstK ==
    (MetricReturned("calculate_context_precision") /\ ~mresult.raised) =>
        /\ mresult.requests = (IF mcall.contexts <= 5 THEN mcall.contexts ELSE 5)
        /\ FEq(mresult.value, Frac(SixtiethsOfYes(mcall.replies), 300))
        /\ FLeq(mresult.value, One)
        /\ \A i, j \in DOMAIN mcall.replies :
              (i < j /\ SaysYes(mcall.replies[j]) /\ AnsweredNo(mcall.replies[i])) =>
                  FLeq(mresult.value,
                       calculate_context_precision(
                           Exchanged(mcall.replies, i, j) \o mcall.later,
                           PrecisionK).value)

C21_Witness ==
    /\ MetricReturned("calculate_context_precision")
    /\ ~mresult.raised
    /\ mcall.contexts = 6
    /\ SaysYes(mcall.later[1])
    /\ SaysYes(mcall.replies[4]) /\ AnsweredNo(mcall.replies[2])
    /\ mresult.requests = 5
    /\ FEq(mresult.value, Frac(1, 20))

(* The first five words of the ground truth and those of them that occur in
   the joined contexts. *)
FirstFive == {i \in DOMAIN mcall.words : i <= 5}
Matched == {i \in FirstFive : mcall.words[i]}

(* C22: calculate_context_recall returns exactly 0.0 for an empty list of
   contexts and for a ground truth without words; otherwise it returns
   matched/total over the first five words of the ground truth. *)
C22_RecallOverFirstFiveWords ==
    MetricReturned("calculate_context_recall") =>
        /\ ~mresult.raised
        /\ mcall.contexts = 0 => mresult.value = Zero
        /\ (mcall.contexts > 0 /\ FirstFive = {}) => mresult.value = Zero
        /\ (mcall.contexts > 0 /\ FirstFive # {}) =>
              FEq(mresult.value, Frac(Cardinality(Matched), Cardinality(FirstFive)))

C22_Witness ==
    /\ MetricReturned("calculate_context_recall")
    /\ mcall.contexts > 0
    /\ Len(mcall.words) = 6
    /\ mcall.words[6]
    /\ Cardinality(Matched) = 2
    /\ FEq(mresult.value, Frac(2, 5))

----------------------------------------------------------------------------
(* Properties of is_refusal_answer *)

AllPatterns == english_patterns \o german_patterns

(* The pattern occurs in the answer at some position, the case of the
   answer's words not counted. *)
OccursWhateverCase(pattern, answer) ==
    \E offset \in 0..(Len(answer) - Len(pattern)) :
        \A k \in DOMAIN pattern : answer[offset + k].word = pattern[k]

ContainsRefusalPhrase(answer) ==
    \E n \in DOMAIN AllPatterns : OccursWhateverCase(AllPatterns[n], answer)

IsRefusalSentence(answer) ==
    /\ Len(answer) = Len(RefusalSentence)
    /\ \A i \in DOMAIN answer : answer[i].word = RefusalSentence[i]

(* C23: is_refusal_answer is true exactly for the answers that contain a
   phrase of the refusal list, case not counted: true for "Die Dokumente
   enthalten nicht die gesuchte Information" in any case, false for every
   answer without a phrase. *)
C23_RefusalIffPhrase ==
    MetricReturned("is_refusal_answer") =>
        /\ ~mresult.raised
        /\ mresult.value = ContainsRefusalPhrase(mcall.answer)
        /\ IsRefusalSentence(mcall.answer) => mresult.value = TRUE

C23_Witness ==
    /\ MetricReturned("is_refusal_answer")
    /\ IsRefusalSentence(mcall.answer)
    /\ mcall.answer[2].upper /\ ~mcall.answer[3].upper
    /\ mresult.value = TRUE

----------------------------------------------------------------------------
(* SessionManager.save_questions and load_questions *)

(* A name is its sequence of characters. *)
IllegalCharacters == {"\\", "/", ":", "*", "?", "\"", "<", ">", "|"}
StrippedCharacters == {" ", "."}
FallbackName == <<"q", "u", "e", "s", "t", "i", "o", "n", "s">>

RECURSIVE DropWhile(_, _)
DropWhile(name, characters) ==
    IF name # <<>> /\ Head(name) \in characters
    THEN DropWhile(Tail(name), characters)
    ELSE name

(* re.sub(r'[\\/:*?"<>|]+', "_", name): each run of illegal characters
   becomes one underscore. *)
RECURSIVE ReplaceIllegal(_)
ReplaceIllegal(name) ==
    IF name = <<>> THEN <<>>
    ELSE IF Head(name) \in IllegalCharacters
         THEN <<"_">> \o ReplaceIllegal(DropWhile(Tail(name), IllegalCharacters))
    ELSE <<Head(name)>> \o ReplaceIllegal(Tail(name))

Reversed(name) == [i \in DOMAIN name |-> name[Len(name) + 1 - i]]

(* name.strip(" .") *)
Strip(name) ==
    Reversed(DropWhile(Reversed(DropWhile(name, StrippedCharacters)),
                       StrippedCharacters))

sanitize_filename(name) ==
    IF Strip(ReplaceIllegal(name)) = <<>> THEN FallbackName
    ELSE Strip(ReplaceIllegal(name))

(* Python values of a question record's fields, and the JSON text json.dump
   writes for them. *)
PyStr(text) == [type |-> "str", value |-> text]
PyInt(digits) == [type |-> "int", value |-> digits]
PyBool(b) == [type |-> "bool", value |-> b]
PyNone == [type |-> "NoneType", value |-> "None"]

Token(tok, text, members) == [tok |-> tok, text |-> text, members |-> members]

EncodeValueAsString(value) == Token("string", value.value, <<>>)
EncodeValue(value) ==
    IF value.type = "bool"
    THEN Token("literal", IF value.value = "True" THEN "true" ELSE "false", <<>>)
    ELSE IF value.type = "NoneType" THEN Token("literal", "null", <<>>)
    ELSE IF value.type = "int" THEN Token("number", value.value, <<>>)
    ELSE Token("string", value.value, <<>>)

DecodeValue(token) ==
    IF token.tok = "string" THEN PyStr(token.text)
    ELSE IF token.tok = "number" THEN PyInt(token.text)
    ELSE IF token.text = "null" THEN PyNone
    ELSE PyBool(IF token.text = "true" THEN "True" ELSE "False")

(* A dict is the sequence of its (key, value) items. *)
EncodeDict(dict) ==
    Token("object", "",
          [i \in DOMAIN dict |-> <<dict[i][1], EncodeValue(dict[i][2])>>])

DecodeDict(token) ==
    [i \in DOMAIN token.members |->
        <<token.members[i][1], DecodeValue(token.members[i][2])>>]

(* json.dump(questions, f, indent=2, ensure_ascii=False) *)
json_dump(list) ==
    Token("array", "", [i \in DOMAIN list |-> EncodeDict(list[i])])

(* json.load(f) *)
json_load(text) == [i \in DOMAIN text.members |-> DecodeDict(text.members[i])]

(* A file that json.load cannot parse. *)
CorruptText == Token("invalid", "", <<>>)

Written1 ==
    <<<<"id", PyStr("Q1")>>, <<"question", PyStr("q")>>,
      <<"difficulty", PyInt("1")>>>>
Written2 ==
    <<<<"id", PyStr("Q2")>>, <<"question", PyStr("r")>>,
      <<"verified", PyBool("True")>>, <<"source", PyNone>>>>

StoredLists == {<<>>, <<Written1>>, <<Written2, Written1>>}

RawNames ==
    {<<"a", "_", "b">>, <<"a", "/", "?", "b">>, <<" ", "a", "_", "b", ".">>,
     <<>>, FallbackName, <<"c">>}

WriteFile(fs, safe_name, text) ==
    [n \in DOMAIN fs \cup {safe_name} |-> IF n = safe_name THEN text ELSE fs[n]]

(* save_questions: open(filepath, 'w') and json.dump *)
save_questions(fs, list, name) ==
    WriteFile(fs, sanitize_filename(name), json_dump(list))

(* load_questions: [] when the file does not exist or cannot be parsed *)
load_questions(fs, name) ==
    IF sanitize_filename(name) \in DOMAIN fs
    THEN IF fs[sanitize_filename(name)].tok = "array"
         THEN json_load(fs[sanitize_filename(name)])
         ELSE <<>>
    ELSE <<>>

StoreCall(op, name, list) == [op |-> op, name |-> name, questions |-> list]

InitStore ==
    /\ IdleBatch
    /\ IdleEval
    /\ IdleFetch
    /\ IdleProv
    /\ IdleMetrics
    /\ IdleSession
    /\ files \in {NoFiles, WriteFile(NoFiles, <<"c">>, CorruptText)}
    /\ sop = NoStoreCall
    /\ sprev = NoStoreCall

StoreSave ==
    /\ \E name \in RawNames, list \in StoredLists :
          /\ files' = save_questions(files, list, name)
          /\ sop' = StoreCall("save", name, list)
    /\ sprev' = sop
    /\ UNCHANGED outsideStore

StoreLoad ==
    /\ \E name \in RawNames :
          sop' = StoreCall("load", name, load_questions(files, name))
    /\ sprev' = sop
    /\ UNCHANGED files
    /\ UNCHANGED outsideStore

NextStore ==
    \/ StoreSave
    \/ StoreLoad

SpecStore == InitStore /\ [][NextStore]_vars

(* C24: load_questions(name) right after save_questions(questions, name)
   returns the saved records, unchanged and in the saved order. *)
C24_SaveThenLoadRoundTrip ==
    (sop.op = "load" /\ sprev.op = "save" /\ sprev.name = sop.name) =>
        sop.questions = sprev.questions

C24_Witness ==
    /\ sop.op = "load"
    /\ sprev.op = "save"
    /\ sprev.name = sop.name
    /\ sop.name = <<"a", "/", "?", "b">>
    /\ sop.questions = <<Written2, Written1>>

(* C29: a save_questions call under one name leaves what load_questions
   returns for every other name as it was. *)
C29_SaveLeavesOtherNamesAlone ==
    [][sop'.op = "save" =>
          \A n \in RawNames \ {sop'.name} :
             load_questions(files', n) = load_questions(files, n)]_vars

----------------------------------------------------------------------------
(* render_unified_comparison: the operations on the active question set *)

MaxActive == 3
MaxGenerated == 1

(* f"Q{i}" *)
QIdTexts == <<"Q1", "Q2", "Q3", "Q4", "Q5", "Q6", "Q7", "Q8", "Q9">>
QId(i) == QIdTexts[i]

(* A question dict; of its fields the model keeps "id" and "question". *)
QuestionDict(id, question) ==
    <<<<"id", PyStr(id)>>, <<"question", PyStr(question)>>>>

IdOf(q) == q[1][2].value
TextOf(q) == q[2][2].value

(* create_sample_questions *)
create_sample_questions ==
    <<QuestionDict("Q1", "s1"), QuestionDict("Q2", "s2"), QuestionDict("Q3", "s3")>>

GeneratedTexts == <<"g1", "g2", "g3", "g4", "g5", "g6", "g7", "g8", "g9">>

(* formatted_questions: the i-th generated question gets the id f"Q{i}" *)
FormattedQuestions(n) == [i \in 1..n |-> QuestionDict(QId(i), GeneratedTexts[i])]

(* st.session_state.last_generated_questions: the list, and whether
   st.session_state.test_questions refers to the very same list object. *)
Generated(items, same_list) == [items |-> items, same_list |-> same_list]
NoGenerated == Generated(<<>>, FALSE)

SaveNames == {<<"a", "/", "?", "b">>}

(* f"{current_q['id']}_results" *)
CacheKey(q) == <<IdOf(q), "_results">>

(* What fetch_both_systems returned, with the query it was called with. *)
FetchedFor(query) == [query |-> query]

NoCache == <<>>

PutCache(cache, key, fetched) ==
    [k \in DOMAIN cache \cup {key} |-> IF k = key THEN fetched ELSE cache[k]]

CurrentQuestion == test_questions[current_question_idx + 1]

InitDashboard ==
    /\ IdleBatch
    /\ IdleEval
    /\ IdleFetch
    /\ IdleProv
    /\ IdleMetrics
    /\ files = NoFiles
    /\ sop = NoStoreCall
    /\ sprev = NoStoreCall
    /\ test_questions = <<>>
    /\ current_question_idx = 0
    /\ results_cache = NoCache
    /\ last_generated_questions = NoGenerated
    /\ show_add_question = FALSE

(* "Load": a set picked from list_question_sets() *)
DashLoad ==
    /\ \E selected_set \in DOMAIN files :
          test_questions' = load_questions(files, selected_set)
    /\ current_question_idx' = 0
    /\ last_generated_questions' =
          Generated(last_generated_questions.items, FALSE)
    /\ UNCHANGED <<files, sop, sprev, results_cache, show_add_question>>
    /\ UNCHANGED outsideDashboard

(* "Load Sample Questions" *)
DashLoadSample ==
    /\ test_questions' = create_sample_questions
    /\ current_question_idx' = 0
    /\ last_generated_questions' =
          Generated(last_generated_questions.items, FALSE)
    /\ UNCHANGED <<files, sop, sprev, results_cache, show_add_question>>
    /\ UNCHANGED outsideDashboard

(* "Generate Questions": a new list goes to last_generated_questions *)
DashGenerate ==
    /\ \E n \in 1..MaxGenerated :
          last_generated_questions' = Generated(FormattedQuestions(n), FALSE)
    /\ UNCHANGED <<files, sop, sprev, test_questions, current_question_idx,
                   results_cache, show_add_question>>
    /\ UNCHANGED outsideDashboard

(* "Add to Current": test_questions.extend(questions_to_use); when both are
   the same list, the list is extended by itself. *)
DashAddToCurrent ==
    /\ last_generated_questions.items # <<>>
    /\ Len(test_questions) + Len(last_generated_questions.items) <= MaxActive
    /\ test_questions' = test_questions \o last_generated_questions.items
    /\ last_generated_questions' =
          IF last_generated_questions.same_list
          THEN Generated(test_questions', TRUE)
          ELSE last_generated_questions
    /\ UNCHANGED <<files, sop, sprev, current_question_idx, results_cache,
                   show_add_question>>
    /\ UNCHANGED outsideDashboard

(* "Replace All" *)
DashReplaceAll ==
    /\ last_generated_questions.items # <<>>
    /\ test_questions' = last_generated_questions.items
    /\ current_question_idx' = 0
    /\ last_generated_questions' = Generated(last_generated_questions.items, TRUE)
    /\ UNCHANGED <<files, sop, sprev, results_cache, show_add_question>>
    /\ UNCHANGED outsideDashboard

(* "Save & Use": save_questions, then the list becomes the active set and
   the key last_generated_questions is deleted. *)
DashSaveAndUse ==
    /\ last_generated_questions.items # <<>>
    /\ \E save_name \in SaveNames :
          files' = save_questions(files, last_generated_questions.items, save_name)
    /\ UNCHANGED <<sop, sprev>>
    /\ test_questions' = last_generated_questions.items
    /\ current_question_idx' = 0
    /\ last_generated_questions' = NoGenerated
    /\ UNCHANGED <<results_cache, show_add_question>>
    /\ UNCHANGED outsideDashboard

(* "Add New Question" *)
DashShowAddQuestion ==
    /\ ~show_add_question
    /\ show_add_question' = TRUE
    /\ UNCHANGED <<files, sop, sprev, test_questions, current_question_idx,
                   results_cache, last_generated_questions>>
    /\ UNCHANGED outsideDashboard

(* The form's "Add": the new question gets the id f"Q{len + 1}" *)
DashAddQuestion ==
    /\ show_add_question
    /\ Len(test_questions) < MaxActive
    /\ test_questions' =
          Append(test_questions, QuestionDict(QId(Len(test_questions) + 1), "m"))
    /\ last_generated_questions' =
          IF last_generated_questions.same_list
          THEN Generated(test_questions', TRUE)
          ELSE last_generated_questions
    /\ show_add_question' = FALSE
    /\ UNCHANGED <<files, sop, sprev, current_question_idx, results_cache>>
    /\ UNCHANGED outsideDashboard

(* A button of the question navigator *)
DashNavigate ==
    /\ \E q_idx \in 0..(Len(test_questions) - 1) :
          /\ q_idx # current_question_idx
          /\ current_question_idx' = q_idx
    /\ UNCHANGED <<files, sop, sprev, test_questions, results_cache,
                   last_generated_questions, show_add_question>>
    /\ UNCHANGED outsideDashboard

(* "Run Current": fetch_both_systems(query=current_q['question']) goes to
   results_cache[f"{current_q['id']}_results"] *)
DashRunCurrent ==
    /\ test_questions # <<>>
    /\ results_cache' = PutCache(results_cache, CacheKey(CurrentQuestion),
                                 FetchedFor(TextOf(CurrentQuestion)))
    /\ UNCHANGED <<files, sop, sprev, test_questions, current_question_idx,
                   last_generated_questions, show_add_question>>
    /\ UNCHANGED outsideDashboard

NextDashboard ==
    \/ DashLoad
    \/ DashLoadSample
    \/ DashGenerate
    \/ DashAddToCurrent
    \/ DashReplaceAll
    \/ DashSaveAndUse
    \/ DashShowAddQuestion
    \/ DashAddQuestion
    \/ DashNavigate
    \/ DashRunCurrent

SpecDashboard == InitDashboard /\ [][NextDashboard]_vars

(* C25: the ids of the questions in the active set are pairwise distinct. *)
C25_ActiveIdsDistinct ==
    \A i, j \in DOMAIN test_questions :
        i # j => IdOf(test_questions[i]) # IdOf(test_questions[j])

(* The dashboard shows the cached results of the current question. *)
ShowsCachedResults ==
    /\ test_questions # <<>>
    /\ CacheKey(CurrentQuestion) \in DOMAIN results_cache

(* C28: the cached results the dashboard shows for the current question
   were fetched with the current question's text. *)
C28_CachedResultsOfCurrentText ==
    ShowsCachedResults =>
        results_cache[CacheKey(CurrentQuestion)].query = TextOf(CurrentQuestion)

----------------------------------------------------------------------------
(* Order of the steps of evaluate_single_question (under SpecEval) *)

FetchedBefore(i) ==
    /\ i > 2
    /\ calls[1] = Call("fetch_chunks", "original")
    /\ calls[2] = Call("fetch_chunks", "reranked")

RetrievedDictPassage(system) ==
    /\ ~results[system].error
    /\ HasDictChunk(results[system].chunks)

AnsweredBefore(i, system) ==
    \E j \in 1..(i - 1) : calls[j] = Call("llm_request", system)

(* C26: in evaluate_single_question every call of generate_answer and every
   metric computation comes after both retrievals and only for a system
   whose retrieval returned no error and a dict-shaped passage; the metrics
   of a system are computed only after its answer was generated. *)
C26_RetrievalThenAnswerThenMetrics ==
    \A i \in DOMAIN calls :
        /\ calls[i].op \in {"generate_answer", "llm_request", "metrics"} =>
              /\ FetchedBefore(i)
              /\ RetrievedDictPassage(calls[i].system)
        /\ calls[i].op = "metrics" => AnsweredBefore(i, calls[i].system)
        /\ calls[i].op = "llm_request" =>
              calls[i - 1] = Call("generate_answer", calls[i].system)

C26_Witness ==
    /\ epc = "done"
    /\ results["original"].error
    /\ calls = <<Call("fetch_chunks", "original"), Call("fetch_chunks", "reranked"),
                 Call("generate_answer", "reranked"), Call("llm_request", "reranked"),
                 Call("metrics", "reranked")>>

(* C27: in the record evaluate_single_question returns, a system whose
   retrieval returned no error and a dict-shaped passage with non-empty
   content has its metrics, whatever else the passage list holds. *)
C27_UsablePassageScored ==
    epc = "done" =>
        \A s \in SystemSet :
            (~results[s].error /\ HasUsableChunk(results[s].chunks)) =>
                evaluation[MetricsKey(s)].present

----------------------------------------------------------------------------
(* Properties of the miss statistics of generate_report (under Spec) *)

WithinPercent(rate) ==
    /\ rate.kind = "num"
    /\ rate.den > 0
    /\ 0 <= rate.num
    /\ rate.num <= 100 * rate.den

(* C30: in every report that contains miss_statistics, each system's miss
   count is at most total_questions and each miss rate lies between 0 and
   100 percent, whatever records were aggregated, also when one system has
   metrics for more questions than the other. *)
C30_MissStatisticsWithinTotal ==
    (pc = "reported" /\ report.raised = "none" /\ report.has_miss_statistics) =>
        /\ report.miss_statistics.original_misses <= report.total_questions
        /\ report.miss_statistics.reranked_misses <= report.total_questions
        /\ WithinPercent(report.miss_statistics.original_miss_rate)
        /\ WithinPercent(report.miss_statistics.reranked_miss_rate)

====
